---- MODULE Spec2Model ----
(***************************************************************************)
(* Model of the SocWatch table-extraction engine of workload-parser        *)
(* (src/workload_parser/parsers/socwatch_parser.py) and of the part of the *)
(* orchestrator that runs and validates it (core/parser.py).               *)
(*                                                                         *)
(* Python strings are sequences of one-character strings, so that split,   *)
(* strip, substring search and concatenation are computed, not assumed.    *)
(* Python values are records [t, s, n]: a str carries its characters in s, *)
(* an int its value in n, a float its value in thousandths in n (s names   *)
(* the special floats inf and nan).  A dict is the sequence of its         *)
(* [k, v] items in insertion order.                                        *)
(***************************************************************************)
EXTENDS Integers, Sequences, FiniteSets, TLC

----------------------------------------------------------------------------
(* str methods *)

Whitespace == {" ", "\t", "\n", "\r"}

Digits == {"0", "1", "2", "3", "4", "5", "6", "7", "8", "9"}

\* sub in s
Contains(sub, s) ==
    \E i \in 0..(Len(s) - Len(sub)) : SubSeq(s, i + 1, i + Len(sub)) = sub

\* c in s, for one character
HasChar(c, s) == \E i \in 1..Len(s) : s[i] = c

StartsWith(s, p) == Len(p) <= Len(s) /\ SubSeq(s, 1, Len(p)) = p

EndsWith(s, p) == Len(p) <= Len(s) /\ SubSeq(s, Len(s) - Len(p) + 1, Len(s)) = p

Upper == <<"A","B","C","D","E","F","G","H","I","J","K","L","M","N","O","P","Q","R","S","T","U","V","W","X","Y","Z">>
Lower == <<"a","b","c","d","e","f","g","h","i","j","k","l","m","n","o","p","q","r","s","t","u","v","w","x","y","z">>

\* str.lower()
LowerChar(c) ==
    IF \E i \in 1..26 : Upper[i] = c THEN Lower[CHOOSE i \in 1..26 : Upper[i] = c] ELSE c

ToLower(s) == [i \in 1..Len(s) |-> LowerChar(s[i])]

\* s.split(d), d one character
RECURSIVE Split(_, _)
Split(s, d) ==
    IF ~HasChar(d, s) THEN <<s>>
    ELSE LET i == CHOOSE j \in 1..Len(s) : s[j] = d /\ \A k \in 1..(j - 1) : s[k] # d
         IN  <<SubSeq(s, 1, i - 1)>> \o Split(SubSeq(s, i + 1, Len(s)), d)

\* s.lstrip() / s.rstrip() / s.strip() over a set of characters
RECURSIVE LStripSet(_, _)
LStripSet(s, cs) ==
    IF Len(s) > 0 /\ s[1] \in cs THEN LStripSet(Tail(s), cs) ELSE s

RECURSIVE RStripSet(_, _)
RStripSet(s, cs) ==
    IF Len(s) > 0 /\ s[Len(s)] \in cs THEN RStripSet(SubSeq(s, 1, Len(s) - 1), cs) ELSE s

StripSet(s, cs) == RStripSet(LStripSet(s, cs), cs)

Strip(s) == StripSet(s, Whitespace)

\* s.replace(c, '')
RECURSIVE RemoveChar(_, _)
RemoveChar(s, c) ==
    IF Len(s) = 0 THEN <<>>
    ELSE (IF s[1] = c THEN <<>> ELSE <<s[1]>>) \o RemoveChar(Tail(s), c)

\* sep.join(parts)
RECURSIVE Join(_, _)
Join(parts, sep) ==
    IF Len(parts) = 0 THEN <<>>
    ELSE IF Len(parts) = 1 THEN parts[1]
    ELSE parts[1] \o sep \o Join(Tail(parts), sep)

Last(q) == q[Len(q)]

Max(a, b) == IF a >= b THEN a ELSE b

----------------------------------------------------------------------------
(* Python values and the numeric conversions int(), float(), round(x, 2) *)

StrV(s)   == [t |-> "str",   s |-> s,    n |-> 0]
IntV(n)   == [t |-> "int",   s |-> <<>>, n |-> n]
FloatV(m) == [t |-> "float", s |-> <<>>, n |-> m]
InfV      == [t |-> "float", s |-> <<"i", "n", "f">>, n |-> 0]
NegInfV   == [t |-> "float", s |-> <<"-", "i", "n", "f">>, n |-> 0]
NanV      == [t |-> "float", s |-> <<"n", "a", "n">>, n |-> 0]
BoolV(b)  == [t |-> "bool",  s |-> <<>>, n |-> IF b THEN 1 ELSE 0]

DigitVal(c) ==
    CASE c = "0" -> 0 [] c = "1" -> 1 [] c = "2" -> 2 [] c = "3" -> 3 [] c = "4" -> 4
      [] c = "5" -> 5 [] c = "6" -> 6 [] c = "7" -> 7 [] c = "8" -> 8 [] c = "9" -> 9

IsDigits(s) == Len(s) > 0 /\ \A i \in 1..Len(s) : s[i] \in Digits

RECURSIVE DigitsVal(_)
DigitsVal(s) ==
    IF Len(s) = 0 THEN 0
    ELSE 10 * DigitsVal(SubSeq(s, 1, Len(s) - 1)) + DigitVal(s[Len(s)])

\* the text int() and float() see: surrounding whitespace is ignored
Unsigned(s) == IF Len(s) > 0 /\ s[1] \in {"-", "+"} THEN Tail(s) ELSE s

Sign(s) == IF Len(s) > 0 /\ s[1] = "-" THEN -1 ELSE 1

\* int(s) succeeds: an optionally signed run of decimal digits
IsIntLit(s) == IsDigits(Unsigned(Strip(s)))

IntOf(s) == Sign(Strip(s)) * DigitsVal(Unsigned(Strip(s)))

\* float(s) succeeds with a finite value: digits with at most one '.'
IsDecimalLit(s) ==
    LET u == Unsigned(Strip(s))
        p == Split(u, ".")
    IN  /\ Len(u) > 0
        /\ \A i \in 1..Len(u) : u[i] \in Digits \cup {"."}
        /\ Len(p) <= 2
        /\ \E i \in 1..Len(u) : u[i] \in Digits

IsInfLit(s) == Unsigned(Strip(s)) = <<"i", "n", "f">>

IsNegInfLit(s) == Strip(s) = <<"-", "i", "n", "f">>

IsNanLit(s) == Unsigned(Strip(s)) = <<"n", "a", "n">>

IsFloatLit(s) == IsDecimalLit(s) \/ IsInfLit(s) \/ IsNanLit(s)

\* the fraction digits of a decimal literal, as thousandths
FracMilli(f) ==
    LET d == SubSeq(f \o <<"0", "0", "0">>, 1, 3) IN DigitsVal(d)

\* value of a decimal literal in thousandths
MilliOf(s) ==
    LET u == Unsigned(Strip(s))
        p == Split(u, ".")
        whole == DigitsVal(p[1])
        frac  == IF Len(p) = 2 THEN FracMilli(p[2]) ELSE 0
    IN  Sign(Strip(s)) * (whole * 1000 + frac)

\* float(s) where it succeeds
FloatOf(s) ==
    IF IsNegInfLit(s) THEN NegInfV
    ELSE IF IsInfLit(s) THEN InfV
    ELSE IF IsNanLit(s) THEN NanV
    ELSE FloatV(MilliOf(s))

Abs(n) == IF n < 0 THEN -n ELSE n

\* round(x, 2) of a float: to the nearest hundredth (ties to even)
Round2Milli(m) ==
    LET a == Abs(m)
        r == a % 10
        down == a - r
        up == down + 10
        q == IF r < 5 THEN down
             ELSE IF r > 5 THEN up
             ELSE IF (down \div 10) % 2 = 0 THEN down ELSE up
    IN  IF m < 0 THEN -q ELSE q

Round2(v) == IF v.s # <<>> THEN v ELSE FloatV(Round2Milli(v.n))

\* a + b as floats (a an int or a float, b a float)
AddFloat(a, b) ==
    IF a = NanV \/ b = NanV THEN NanV
    ELSE IF a \in {InfV, NegInfV} THEN (IF b \in {InfV, NegInfV} /\ b # a THEN NanV ELSE a)
    ELSE IF b \in {InfV, NegInfV} THEN b
    ELSE FloatV(a.n * (IF a.t = "int" THEN 1000 ELSE 1) + b.n)

\* int(x) of a finite float: truncation toward zero
TruncMilli(m) == IF m < 0 THEN -((-m) \div 1000) ELSE m \div 1000

----------------------------------------------------------------------------
(* dict: items in insertion order, keys unique *)

Keys(d) == [i \in 1..Len(d) |-> d[i].k]

HasKey(d, k) == \E i \in 1..Len(d) : d[i].k = k

IndexOf(d, k) == CHOOSE i \in 1..Len(d) : d[i].k = k

Get(d, k) == d[IndexOf(d, k)].v

\* d[k] = v: a present key keeps its position and takes the new value
Put(d, k, v) ==
    IF HasKey(d, k)
    THEN [d EXCEPT ![IndexOf(d, k)] = [k |-> k, v |-> v]]
    ELSE Append(d, [k |-> k, v |-> v])

\* d.update(e)
RECURSIVE Update(_, _)
Update(d, e) ==
    IF Len(e) = 0 THEN d ELSE Update(Put(d, e[1].k, e[1].v), Tail(e))

\* what a table function hands back: a dict, or an exception that left it
Returned(d) == [raised |-> FALSE, data |-> d]
Raised      == [raised |-> TRUE,  data |-> <<>>]

----------------------------------------------------------------------------
(* table keys and fixed texts of the table functions *)

K_CPU_model   == <<"C","P","U","_","m","o","d","e","l">>
K_Core_Cstate == <<"C","o","r","e","_","C","s","t","a","t","e">>
K_ACPI_Cstate == <<"A","C","P","I","_","C","s","t","a","t","e">>
K_PKG_Cstate  == <<"P","K","G","_","C","s","t","a","t","e">>
K_OS_wakeups  == <<"O","S","_","w","a","k","e","u","p","s">>
K_CPU_Pavr    == <<"C","P","U","_","P","a","v","r">>
K_CPU_Pstate  == <<"C","P","U","_","P","s","t","a","t","e">>
K_DC_count    == <<"D","C","_","c","o","u","n","t">>
K_DDR_BW      == <<"D","D","R","_","B","W">>
K_IO_BW       == <<"I","O","_","B","W">>
K_VC1_BW      == <<"V","C","1","_","B","W">>
K_NPU_BW      == <<"N","P","U","_","B","W">>
K_Media_BW    == <<"M","e","d","i","a","_","B","W">>
K_IPU_BW      == <<"I","P","U","_","B","W">>
K_CCE_BW      == <<"C","C","E","_","B","W">>
K_GT_BW       == <<"G","T","_","B","W">>
K_D2D_BW      == <<"D","2","D","_","B","W">>
K_CPU_temp    == <<"C","P","U","_","t","e","m","p">>
K_SoC_temp    == <<"S","o","C","_","t","e","m","p">>
K_PMC_SLP_S0  == <<"P","M","C","+","S","L","P","_","S","0">>
K_NPU_Pstate  == <<"N","P","U","_","P","s","t","a","t","e">>

BandwidthKeys ==
    {K_DDR_BW, K_IO_BW, K_VC1_BW, K_NPU_BW, K_Media_BW, K_IPU_BW, K_CCE_BW, K_GT_BW, K_D2D_BW}

PercentMarker == <<"(","%",")">>
PstateMarker  == <<"_","P","s","t","a","t","e">>
AvrRtSuffix   == <<"_","A","v","r","R","t","(","M","B","/","s",")">>
RankText      == <<"R","a","n","k">>
EntryPrefix   == <<"E","n","t","r","y","_">>
HeaderText    == <<"H","e","a","d","e","r">>
ValueText     == <<"V","a","l","u","e">>

\* str(n) for the row numbers a table can have
DigitChar(n) == CASE n = 0 -> "0" [] n = 1 -> "1" [] n = 2 -> "2" [] n = 3 -> "3" [] n = 4 -> "4"
                  [] n = 5 -> "5" [] n = 6 -> "6" [] n = 7 -> "7" [] n = 8 -> "8" [] n = 9 -> "9"

RECURSIVE NatToStr(_)
NatToStr(n) == IF n < 10 THEN <<DigitChar(n)>> ELSE NatToStr(n \div 10) \o <<DigitChar(n % 10)>>

\* try: round(float(x), 2)  except ValueError: x
RoundOrKeep(x) == IF IsFloatLit(x) THEN Round2(FloatOf(x)) ELSE StrV(x)

----------------------------------------------------------------------------
(* the table functions, socwatch_parser.py:14-196 *)

RECURSIVE cpu_model_loop(_, _, _)
cpu_model_loop(table_data, i, data) ==
    IF i > Len(table_data) THEN data
    ELSE LET line  == table_data[i]
             items == Split(line[1], "=")
             key   == IF HasChar("/", items[1]) THEN Strip(Split(items[1], "/")[2])
                      ELSE Strip(items[1])
         IN  IF Len(line) > 0 /\ HasChar("=", line[1]) /\ Len(items) > 1
             THEN cpu_model_loop(table_data, i + 1, Put(data, key, StrV(Strip(Last(items)))))
             ELSE cpu_model_loop(table_data, i + 1, data)

cpu_model_table(table_data) == Returned(cpu_model_loop(table_data, 1, <<>>))

\* the try block of one_line_colon_separator
ColonValue(value) ==
    IF HasChar(".", value)
    THEN (IF IsFloatLit(value) THEN FloatOf(value) ELSE StrV(value))
    ELSE (IF IsIntLit(value) THEN IntV(IntOf(value)) ELSE StrV(value))

RECURSIVE one_line_colon_loop(_, _, _)
one_line_colon_loop(table_data, i, data) ==
    IF i > Len(table_data) THEN data
    ELSE LET line  == table_data[i]
             items == Split(line[1], ":")
         IN  IF Len(line) > 0 /\ HasChar(":", line[1]) /\ Len(items) >= 2
             THEN one_line_colon_loop(table_data, i + 1,
                      Put(data, Strip(items[1]), ColonValue(Strip(Last(items)))))
             ELSE one_line_colon_loop(table_data, i + 1, data)

one_line_colon_separator(table_data) == Returned(one_line_colon_loop(table_data, 1, <<>>))

RECURSIVE temp_avr_loop(_, _, _, _)
temp_avr_loop(table_data, label, i, data) ==
    IF i > Len(table_data) THEN data
    ELSE LET line == table_data[i]
             key  == IF HasChar("/", line[1]) THEN Last(Split(line[1], "/")) ELSE line[1]
         IN  IF Len(line) >= 5
             THEN IF i - 1 = 0
                  THEN temp_avr_loop(table_data, label, i + 1, Put(data, label, StrV(line[5])))
                  ELSE temp_avr_loop(table_data, label, i + 1, Put(data, key, RoundOrKeep(line[5])))
             ELSE temp_avr_loop(table_data, label, i + 1, data)

temp_avr_table(table_data, label) == Returned(temp_avr_loop(table_data, label, 1, <<>>))

bw_total_avr(table_data, label) ==
    IF Len(table_data) > 0 /\ Len(Last(table_data)) >= 3
    THEN Returned(<<[k |-> label \o AvrRtSuffix, v |-> RoundOrKeep(Last(table_data)[3])]>>)
    ELSE Returned(<<[k |-> label \o AvrRtSuffix, v |-> IntV(0)]>>)

\* the column loop going on past a header column without the '(%)' marker
RECURSIVE core_residency_loop_skip(_, _, _, _)
core_residency_loop_skip(header_row, data_row, index, data) ==
    IF index + 1 > Len(header_row) THEN data
    ELSE IF index >= Len(data_row) THEN data
    ELSE LET cell == header_row[index + 1]
             key  == IF HasChar("/", cell) THEN Last(Split(cell, "/")) ELSE cell
         IN  core_residency_loop_skip(header_row, data_row, index + 1,
                 IF ~Contains(PercentMarker, key) THEN data
                 ELSE Put(data, key, RoundOrKeep(data_row[index + 1])))

RECURSIVE core_residency_loop(_, _, _, _)
core_residency_loop(header_row, data_row, index, data) ==
    IF index + 1 > Len(header_row) THEN data
    ELSE IF index >= Len(data_row) THEN data
    ELSE LET cell == header_row[index + 1]
             key  == IF HasChar("/", cell) THEN Last(Split(cell, "/")) ELSE cell
         IN  IF ~Contains(PercentMarker, key) THEN data
             ELSE core_residency_loop(header_row, data_row, index + 1,
                      Put(data, key, RoundOrKeep(data_row[index + 1])))

core_residency_table(table_data) ==
    IF Len(table_data) >= 2
    THEN LET header_row == table_data[1]
             data_row   == table_data[2]
             first == IF Len(header_row) > 0 /\ Len(data_row) > 0
                      THEN <<[k |-> header_row[1], v |-> StrV(data_row[1])]>>
                      ELSE <<>>
         IN  Returned(core_residency_loop(header_row, data_row, 1, first))
    ELSE Returned(<<>>)

\* f"{line[1].split(' ')[0]} ({text})"
WakeupValue(line, text) == Split(line[2], " ")[1] \o <<" ", "(">> \o text \o <<")">>

\* ' '.join(line[2].split(' ')[:-1])
AllButLastWord(s) ==
    LET w == Split(s, " ") IN Join(SubSeq(w, 1, Len(w) - 1), <<" ">>)

RECURSIVE os_wakeups_loop(_, _, _)
os_wakeups_loop(table_data, i, data) ==
    IF i > Len(table_data) THEN data
    ELSE LET line == table_data[i]
             idx  == i - 1
             key   == IF idx = 0 THEN K_OS_wakeups
                      ELSE IF idx = 1 THEN RankText
                      ELSE IF line[1] # <<>> THEN line[1]
                      ELSE EntryPrefix \o NatToStr(idx)
             value == IF idx = 0 THEN WakeupValue(line, AllButLastWord(line[3]))
                      ELSE WakeupValue(line, line[3])
         IN  IF Len(line) >= 3
             THEN os_wakeups_loop(table_data, i + 1, Put(data, key, StrV(value)))
             ELSE os_wakeups_loop(table_data, i + 1, data)

os_wakeups_table(table_data) == Returned(os_wakeups_loop(table_data, 1, <<>>))

\* int(float(value)) raises OverflowError on an infinity; 'except ValueError'
\* does not catch it
IntOfFloatRaises(value) == IsInfLit(value)

\* try: int(float(value))  except ValueError: value
IntOfFloatOrKeep(value) ==
    IF IsDecimalLit(value) THEN IntV(TruncMilli(MilliOf(value))) ELSE StrV(value)

\* line[key_idx].split("/")[2] when it has more than two segments
FreqKey(cell) ==
    IF HasChar("/", cell) /\ Len(Split(cell, "/")) > 2 THEN Split(cell, "/")[3] ELSE cell

RECURSIVE core_freq_avr_loop(_, _, _, _, _)
core_freq_avr_loop(table_data, key_idx, value_idx, i, data) ==
    IF i > Len(table_data) THEN Returned(data)
    ELSE LET line == table_data[i]
         IN  IF Len(line) > Max(key_idx, value_idx)
             THEN IF IntOfFloatRaises(line[value_idx + 1]) THEN Raised
                  ELSE core_freq_avr_loop(table_data, key_idx, value_idx, i + 1,
                           Put(data, FreqKey(line[key_idx + 1]),
                               IntOfFloatOrKeep(line[value_idx + 1])))
             ELSE core_freq_avr_loop(table_data, key_idx, value_idx, i + 1, data)

core_freq_avr_table(table_data, key_idx, value_idx) ==
    IF Len(table_data) > 0 /\ Len(table_data[1]) > Max(key_idx, value_idx)
    THEN core_freq_avr_loop(table_data, key_idx, value_idx, 2,
             <<[k |-> table_data[1][key_idx + 1], v |-> StrV(table_data[1][value_idx + 1])]>>)
    ELSE Returned(<<>>)

\* the P-state rule on keys: drop the part after the first '.'
PstateKey(key, idx) ==
    IF Contains(PstateMarker, key) /\ idx > 0 /\ HasChar(".", key)
    THEN Split(key, ".")[1] ELSE key

RECURSIVE default_residency_loop(_, _, _, _, _)
default_residency_loop(table_data, key_idx, value_idx, i, data) ==
    IF i > Len(table_data) THEN data
    ELSE LET line == table_data[i]
         IN  IF Len(line) > Max(key_idx, value_idx)
             THEN default_residency_loop(table_data, key_idx, value_idx, i + 1,
                      Put(data, PstateKey(line[key_idx + 1], i - 1),
                          RoundOrKeep(line[value_idx + 1])))
             ELSE default_residency_loop(table_data, key_idx, value_idx, i + 1, data)

default_residency_table(table_data, key_idx, value_idx) ==
    Returned(default_residency_loop(table_data, key_idx, value_idx, 1, <<>>))

\* bucketized_data = {bucket: 0 for bucket in (buckets or [])}
RECURSIVE ZeroBuckets(_, _)
ZeroBuckets(buckets, d) ==
    IF Len(buckets) = 0 THEN d ELSE ZeroBuckets(Tail(buckets), Put(d, buckets[1], IntV(0)))

\* bucket_loop with a range bucket assigned from the row instead of added to
RECURSIVE bucket_loop_assign(_, _, _, _)
bucket_loop_assign(bucketized_data, j, key, value) ==
    IF j > Len(bucketized_data) THEN bucketized_data
    ELSE LET bucket == bucketized_data[j].k
             ranges == Split(bucket, "-")
             hit == IF HasChar("-", bucket)
                    THEN /\ Len(ranges) = 2
                         /\ IsIntLit(ranges[1])
                         /\ IsIntLit(ranges[2])
                         /\ IsIntLit(key)
                         /\ IntOf(ranges[1]) <= IntOf(key)
                         /\ IntOf(key) <= IntOf(ranges[2])
                         /\ IsFloatLit(value)
                    ELSE bucket = key /\ IsFloatLit(value)
         IN  bucket_loop_assign(IF hit THEN [bucketized_data EXCEPT ![j].v = FloatOf(value)]
                                ELSE bucketized_data,
                                j + 1, key, value)

\* one pass of 'for bucket in bucketized_data' for one row; any ValueError
\* (a bound, the key or the value does not parse) leaves the bucket as it is
RECURSIVE bucket_loop(_, _, _, _)
bucket_loop(bucketized_data, j, key, value) ==
    IF j > Len(bucketized_data) THEN bucketized_data
    ELSE LET bucket == bucketized_data[j].k
             ranges == Split(bucket, "-")
             hit == IF HasChar("-", bucket)
                    THEN /\ Len(ranges) = 2
                         /\ IsIntLit(ranges[1])
                         /\ IsIntLit(ranges[2])
                         /\ IsIntLit(key)
                         /\ IntOf(ranges[1]) <= IntOf(key)
                         /\ IntOf(key) <= IntOf(ranges[2])
                         /\ IsFloatLit(value)
                    ELSE bucket = key /\ IsFloatLit(value)
             new == IF HasChar("-", bucket)
                    THEN AddFloat(bucketized_data[j].v, FloatOf(value))
                    ELSE FloatOf(value)
         IN  bucket_loop(IF hit THEN [bucketized_data EXCEPT ![j].v = new] ELSE bucketized_data,
                         j + 1, key, value)

\* the row loop of bucketized_table: st = [data, bucketized_data]
RECURSIVE bucketized_loop(_, _, _, _, _, _)
bucketized_loop(table_data, key_idx, value_idx, buckets, i, st) ==
    IF i > Len(table_data) THEN st
    ELSE LET line  == table_data[i]
             idx   == i - 1
             key   == PstateKey(line[key_idx + 1], idx)
             value == line[value_idx + 1]
         IN  IF Len(line) > Max(key_idx, value_idx)
             THEN bucketized_loop(table_data, key_idx, value_idx, buckets, i + 1,
                      [data |-> Put(st.data, key, StrV(value)),
                       bucketized_data |->
                           IF idx > 0 /\ Len(buckets) > 0
                           THEN bucket_loop(st.bucketized_data, 1, key, value)
                           ELSE st.bucketized_data])
             ELSE bucketized_loop(table_data, key_idx, value_idx, buckets, i + 1, st)

\* bucketized_table without the try/except around a bucket: a spec whose
\* bounds do not parse raises as soon as a data row reaches it
bucketized_table_strict(table_data, key_idx, value_idx, buckets) ==
    LET st == bucketized_loop(table_data, key_idx, value_idx, buckets, 1,
                  [data |-> <<>>, bucketized_data |-> ZeroBuckets(buckets, <<>>)])
        first_item == IF Len(st.data) > 0 THEN st.data[1]
                      ELSE [k |-> HeaderText, v |-> StrV(ValueText)]
        unparsed(b) == /\ HasChar("-", b)
                       /\ Len(Split(b, "-")) = 2
                       /\ ~(IsIntLit(Split(b, "-")[1]) /\ IsIntLit(Split(b, "-")[2]))
    IN  IF /\ \E i \in 1..Len(buckets) : unparsed(buckets[i])
           /\ \E i \in 2..Len(table_data) : Len(table_data[i]) > Max(key_idx, value_idx)
        THEN Raised
        ELSE IF Len(buckets) > 0
        THEN Returned(Update(<<first_item>>, st.bucketized_data))
        ELSE Returned(st.data)

\* bucketized_table returning the per-row pairs along with the buckets
bucketized_table_raw(table_data, key_idx, value_idx, buckets) ==
    LET st == bucketized_loop(table_data, key_idx, value_idx, buckets, 1,
                  [data |-> <<>>, bucketized_data |-> ZeroBuckets(buckets, <<>>)])
    IN  IF Len(buckets) > 0
        THEN Returned(Update(st.data, st.bucketized_data))
        ELSE Returned(st.data)

bucketized_table(table_data, key_idx, value_idx, buckets) ==
    LET st == bucketized_loop(table_data, key_idx, value_idx, buckets, 1,
                  [data |-> <<>>, bucketized_data |-> ZeroBuckets(buckets, <<>>)])
        first_item == IF Len(st.data) > 0 THEN st.data[1]
                      ELSE [k |-> HeaderText, v |-> StrV(ValueText)]
    IN  IF Len(buckets) > 0
        THEN Returned(Update(<<first_item>>, st.bucketized_data))
        ELSE Returned(st.data)

----------------------------------------------------------------------------
(* socwatch_table_type_checker, socwatch_parser.py:199-224 *)

\* the type checker with the value column of CPU_Pstate chosen from core_type
socwatch_table_type_checker_cached(table_data, label, core_type, soc_target, tdic) ==
    IF label = K_CPU_model THEN cpu_model_table(table_data)
    ELSE IF label \in {K_Core_Cstate, K_ACPI_Cstate} THEN core_residency_table(table_data)
    ELSE IF label = K_OS_wakeups THEN os_wakeups_table(table_data)
    ELSE IF label = K_CPU_Pavr THEN core_freq_avr_table(table_data, 0, 1)
    ELSE IF label = K_CPU_Pstate
         THEN default_residency_table(table_data, 0, IF core_type # <<>> THEN 2 ELSE 1)
    ELSE IF label = K_DC_count THEN one_line_colon_separator(table_data)
    ELSE IF label \in BandwidthKeys THEN bw_total_avr(table_data, label)
    ELSE IF label \in {K_CPU_temp, K_SoC_temp} THEN temp_avr_table(table_data, label)
    ELSE IF label = K_PMC_SLP_S0 THEN default_residency_table(table_data, 0, 2)
    ELSE IF soc_target.hasBuckets
         THEN bucketized_table(table_data, 0, 1, soc_target.buckets)
    ELSE default_residency_table(table_data, 0, 1)

socwatch_table_type_checker(table_data, label, core_type, soc_target, tdic) ==
    IF label = K_CPU_model THEN cpu_model_table(table_data)
    ELSE IF label \in {K_Core_Cstate, K_ACPI_Cstate} THEN core_residency_table(table_data)
    ELSE IF label = K_OS_wakeups THEN os_wakeups_table(table_data)
    ELSE IF label = K_CPU_Pavr THEN core_freq_avr_table(table_data, 0, 1)
    ELSE IF label = K_CPU_Pstate THEN default_residency_table(table_data, 0, 1)
    ELSE IF label = K_DC_count THEN one_line_colon_separator(table_data)
    ELSE IF label \in BandwidthKeys THEN bw_total_avr(table_data, label)
    ELSE IF label \in {K_CPU_temp, K_SoC_temp} THEN temp_avr_table(table_data, label)
    ELSE IF label = K_PMC_SLP_S0 THEN default_residency_table(table_data, 0, 2)
    ELSE IF soc_target.hasBuckets
         THEN bucketized_table(table_data, 0, 1, soc_target.buckets)
    ELSE default_residency_table(table_data, 0, 1)

----------------------------------------------------------------------------
(* SocwatchParser: locating, tokenizing and extracting one target,         *)
(* socwatch_parser.py:316-352 and 460-522                                  *)

\* a target descriptor of the catalog (one entry of socwatch_targets)
Target(key, lookup, hasBuckets, buckets) ==
    [key |-> key, lookup |-> lookup, hasBuckets |-> hasBuckets, buckets |-> buckets]

\* the scan 'for i, line in enumerate(lines): if lookup_text in line': the
\* zero-based index of the first line holding the text, -1 when none does
RECURSIVE LocateFrom(_, _, _)
LocateFrom(lines, lookup_text, i) ==
    IF i > Len(lines) THEN -1
    ELSE IF Contains(lookup_text, lines[i]) THEN i - 1
    ELSE LocateFrom(lines, lookup_text, i + 1)

\* the scan with the case of the letters ignored
Locate_nocase(lines, lookup_text) ==
    LocateFrom([n \in 1..Len(lines) |-> ToLower(lines[n])], ToLower(lookup_text), 1)

\* the scan given up at the first empty line
Locate_first_section(lines, lookup_text) ==
    LET i == LocateFrom(lines, lookup_text, 1)
    IN  IF i # -1 /\ \E j \in 1..i : Strip(lines[j]) = <<>> THEN -1 ELSE i

Locate(lines, lookup_text) == LocateFrom(lines, lookup_text, 1)

\* line.startswith('---') or line.replace('-', '').replace(' ', '') == ''
IsSeparatorLine(line) ==
    \/ StartsWith(line, <<"-", "-", "-">>)
    \/ RemoveChar(RemoveChar(line, "-"), " ") = <<>>

\* [part.strip().strip('"') for part in line.split(',') if part.strip()]
RECURSIVE CleanParts(_)
CleanParts(pieces) ==
    IF Len(pieces) = 0 THEN <<>>
    ELSE (IF Strip(pieces[1]) # <<>>
          THEN <<StripSet(Strip(pieces[1]), {"\""})>>
          ELSE <<>>) \o CleanParts(Tail(pieces))

\* the while loop ended by a line of no character only
RECURSIVE RawTableLines_nostrip(_, _, _)
RawTableLines_nostrip(lines, current_idx, raw_table_lines) ==
    IF current_idx >= Len(lines) THEN raw_table_lines
    ELSE LET line  == Strip(lines[current_idx + 1])
             parts == CleanParts(Split(line, ","))
         IN  IF lines[current_idx + 1] = <<>> THEN raw_table_lines
             ELSE IF IsSeparatorLine(line)
                  THEN RawTableLines_nostrip(lines, current_idx + 1, raw_table_lines)
             ELSE IF Len(parts) > 0
                  THEN RawTableLines_nostrip(lines, current_idx + 1, Append(raw_table_lines, parts))
             ELSE RawTableLines_nostrip(lines, current_idx + 1, raw_table_lines)

\* the while loop that collects raw_table_lines; current_idx is zero-based
RECURSIVE RawTableLines(_, _, _)
RawTableLines(lines, current_idx, raw_table_lines) ==
    IF current_idx >= Len(lines) THEN raw_table_lines
    ELSE LET line  == Strip(lines[current_idx + 1])
             parts == CleanParts(Split(line, ","))
         IN  IF line = <<>> THEN raw_table_lines
             ELSE IF IsSeparatorLine(line)
                  THEN RawTableLines(lines, current_idx + 1, raw_table_lines)
             ELSE IF Len(parts) > 0
                  THEN RawTableLines(lines, current_idx + 1, Append(raw_table_lines, parts))
             ELSE RawTableLines(lines, current_idx + 1, raw_table_lines)

\* the except branch with field 1 coerced as the Default extractor does
RECURSIVE FallbackData_coerce(_, _)
FallbackData_coerce(raw_table_lines, fallback_data) ==
    IF Len(raw_table_lines) = 0 THEN fallback_data
    ELSE LET row == raw_table_lines[1]
         IN  FallbackData_coerce(Tail(raw_table_lines),
                 IF Len(row) >= 2 THEN Put(fallback_data, row[1], RoundOrKeep(row[2]))
                 ELSE fallback_data)

\* the except branch: fallback_data[row[0]] = row[1] for rows of two fields or more
RECURSIVE FallbackData(_, _)
FallbackData(raw_table_lines, fallback_data) ==
    IF Len(raw_table_lines) = 0 THEN fallback_data
    ELSE LET row == raw_table_lines[1]
         IN  FallbackData(Tail(raw_table_lines),
                 IF Len(row) >= 2 THEN Put(fallback_data, row[1], StrV(row[2]))
                 ELSE fallback_data)

\* _extract_table_data without the early return on a section of no row
extract_table_data_unguarded(lines, lookup_idx, target, core_type_cache) ==
    LET raw_table_lines == RawTableLines(lines, lookup_idx + 1, <<>>)
        parsed == socwatch_table_type_checker(raw_table_lines, target.key,
                      core_type_cache, target, <<>>)
    IN  IF parsed.raised
        THEN [data |-> FallbackData(raw_table_lines, <<>>),
              cache |-> core_type_cache, warned |-> TRUE]
        ELSE [data |-> parsed.data,
              cache |-> IF target.key = K_CPU_model /\ Len(parsed.data) > 0
                        THEN parsed.data ELSE core_type_cache,
              warned |-> FALSE]

\* _extract_table_data: the data of the target, the cache it leaves behind and
\* whether the table function raised (the warning the except branch logs)
extract_table_data(lines, lookup_idx, target, core_type_cache) ==
    LET raw_table_lines == RawTableLines(lines, lookup_idx + 1, <<>>)
        parsed == socwatch_table_type_checker(raw_table_lines, target.key,
                      core_type_cache, target, <<>>)
    IN  IF Len(raw_table_lines) = 0
        THEN [data |-> <<>>, cache |-> core_type_cache, warned |-> FALSE]
        ELSE IF parsed.raised
        THEN [data |-> FallbackData(raw_table_lines, <<>>),
              cache |-> core_type_cache, warned |-> TRUE]
        ELSE [data |-> parsed.data,
              cache |-> IF target.key = K_CPU_model /\ Len(parsed.data) > 0
                        THEN parsed.data ELSE core_type_cache,
              warned |-> FALSE]

----------------------------------------------------------------------------
(* SocwatchParser: flattening the tables, socwatch_parser.py:676-834 *)

\* the separator between a metric key and its table key (eight spaces)
Separator == <<" ", " ", " ", " ", " ", " ", " ", " ">>

CompositeKey(metric_key, table_key) == metric_key \o Separator \o table_key

T_AvrRt      == <<"A","v","r","R","t","(","M","B","/","s",")">>
T_Component  == <<"C","o","m","p","o","n","e","n","t">>
T_State      == <<"S","t","a","t","e">>
T_Frequency  == <<"F","r","e","q","u","e","n","c","y">>
T_Residency  == <<"R","e","s","i","d","e","n","c","y">>
T_Time       == <<"T","i","m","e">>
T_Percentage == <<"P","e","r","c","e","n","t","a","g","e">>

ModelTerms ==
    { <<"p","r","o","c","e","s","s","o","r">>, <<"c","p","u">>, <<"f","a","m","i","l","y">>,
      <<"m","o","d","e","l">>, <<"s","t","e","p","p","i","n","g">> }

HasParens(key) == HasChar("(", key) /\ HasChar(")", key)

\* _is_specialized_table_format
is_specialized_table_format(table_data, table_key) ==
    LET keys == Keys(table_data)
        first_key == keys[1]
    IN  IF Len(keys) = 0 THEN FALSE
        ELSE IF EndsWith(table_key, <<"_", "B", "W">>)
             THEN Len(keys) = 1 /\ Contains(T_AvrRt, keys[1])
        ELSE IF table_key \in {K_CPU_temp, K_SoC_temp}
             THEN Len(keys) > 1 /\ Contains(table_key, keys[1])
        ELSE IF table_key = K_CPU_model
             THEN \E i \in 1..Len(keys) :
                      /\ keys[i] # <<>>
                      /\ \E term \in ModelTerms : Contains(term, ToLower(keys[i]))
        ELSE IF table_key = K_OS_wakeups
             THEN \E i \in 1..Len(keys) : keys[i] = K_OS_wakeups
        ELSE IF table_key = K_DC_count
             THEN Len(keys) >= 1 /\ ~\E i \in 1..Len(keys) : i <= 2 /\ HasParens(keys[i])
        ELSE IF table_key \in {K_Core_Cstate, K_ACPI_Cstate, K_PKG_Cstate, K_CPU_Pstate, K_CPU_Pavr}
             THEN ~(/\ \E pattern \in {T_Component, T_State, T_Frequency, T_Residency, T_Time} :
                           Contains(pattern, first_key)
                    /\ HasParens(first_key))
        ELSE ~(/\ HasParens(first_key)
               /\ \E term \in {T_Component, T_State, T_Frequency, T_Residency, T_Percentage} :
                      Contains(term, first_key))

header_mapping ==
    <<
      <<<<"C","P","U","_","m","o","d","e","l">>,
        <<"C","P","U","_","m","o","d","e","l">>>>,
      <<<<"P","C","H","_","S","L","P","5","0">>,
        <<"P","C","H"," ","S","L","P","-","S","0"," ","S","t","a","t","e","s">>>>,
      <<<<"S","0","i","x","_","S","u","b","s","t","a","t","e">>,
        <<"S","t","a","t","e">>>>,
      <<<<"P","K","G","_","C","s","t","a","t","e">>,
        <<"C","-","S","t","a","t","e">>>>,
      <<<<"C","o","r","e","_","C","s","t","a","t","e">>,
        <<"C","-","S","t","a","t","e">>>>,
      <<<<"C","o","r","e","_","C","o","n","c","u","r","r","e","n","c","y">>,
        <<"#"," ","A","c","t","i","v","e"," ","C","o","r","e","s">>>>,
      <<<<"A","C","P","I","_","C","s","t","a","t","e">>,
        <<"C","-","S","t","a","t","e">>>>,
      <<<<"O","S","_","w","a","k","e","u","p","s">>,
        <<"O","S","_","w","a","k","e","u","p","s">>>>,
      <<<<"C","P","U","-","i","G","P","U">>,
        <<"C","P","U","/","P","a","c","k","a","g","e","_","0"," ","R","e","s","i","d","e","n","c","y"," ","(","%",")">>>>,
      <<<<"C","P","U","_","P","a","v","r">>,
        <<"C","P","U"," ","I","D">>>>,
      <<<<"C","P","U","_","P","s","t","a","t","e">>,
        <<"P","-","S","t","a","t","e">>>>,
      <<<<"R","C","_","C","s","t","a","t","e">>,
        <<"C","-","S","t","a","t","e">>>>,
      <<<<"D","D","R","_","B","W">>,
        <<"D","D","R","_","B","W","_","A","v","r","R","t","(","M","B","/","s",")">>>>,
      <<<<"I","O","_","B","W">>,
        <<"I","O","_","B","W","_","A","v","r","R","t","(","M","B","/","s",")">>>>,
      <<<<"V","C","1","_","B","W">>,
        <<"V","C","1","_","B","W","_","A","v","r","R","t","(","M","B","/","s",")">>>>,
      <<<<"N","P","U","_","B","W">>,
        <<"N","P","U","_","B","W","_","A","v","r","R","t","(","M","B","/","s",")">>>>,
      <<<<"M","e","d","i","a","_","B","W">>,
        <<"M","e","d","i","a","_","B","W","_","A","v","r","R","t","(","M","B","/","s",")">>>>,
      <<<<"I","P","U","_","B","W">>,
        <<"I","P","U","_","B","W","_","A","v","r","R","t","(","M","B","/","s",")">>>>,
      <<<<"C","C","E","_","B","W">>,
        <<"C","C","E","_","B","W","_","A","v","r","R","t","(","M","B","/","s",")">>>>,
      <<<<"G","T","_","B","W">>,
        <<"G","T","_","B","W","_","A","v","r","R","t","(","M","B","/","s",")">>>>,
      <<<<"D","2","D","_","B","W">>,
        <<"D","2","D","_","B","W","_","A","v","r","R","t","(","M","B","/","s",")">>>>,
      <<<<"C","P","U","_","t","e","m","p">>,
        <<"C","o","m","p","o","n","e","n","t"," ","N","a","m","e">>>>,
      <<<<"S","o","C","_","t","e","m","p">>,
        <<"C","o","m","p","o","n","e","n","t"," ","N","a","m","e">>>>,
      <<<<"N","P","U","_","D","s","t","a","t","e">>,
        <<"S","t","a","t","e">>>>,
      <<<<"P","M","C","+","S","L","P","_","S","0">>,
        <<"P","C","H"," ","I","P"," ","B","l","o","c","k","s">>>>,
      <<<<"M","e","d","i","a","_","C","s","t","a","t","e">>,
        <<"C","-","S","t","a","t","e">>>>,
      <<<<"N","P","U","_","P","s","t","a","t","e">>,
        <<"F","r","e","q","u","e","n","c","y"," ","(","M","H","z",")">>>>,
      <<<<"M","E","M","S","S","_","P","s","t","a","t","e">>,
        <<"F","r","e","q","u","e","n","c","y"," ","(","M","H","z",")">>>>,
      <<<<"N","o","C","_","P","s","t","a","t","e">>,
        <<"F","r","e","q","u","e","n","c","y"," ","(","M","H","z",")">>>>,
      <<<<"i","G","F","X","_","P","s","t","a","t","e">>,
        <<"F","r","e","q","u","e","n","c","y"," ","(","M","H","z",")">>>>
    >>

value_mapping ==
    <<
      <<<<"C","P","U","_","m","o","d","e","l">>,
        <<"C","P","U","_","m","o","d","e","l">>>>,
      <<<<"P","C","H","_","S","L","P","5","0">>,
        <<"P","C","H"," ","R","e","s","i","d","e","n","c","y"," ","(","%",")">>>>,
      <<<<"S","0","i","x","_","S","u","b","s","t","a","t","e">>,
        <<"R","e","s","i","d","e","n","c","y"," ","(","%",")">>>>,
      <<<<"P","K","G","_","C","s","t","a","t","e">>,
        <<"P","a","c","k","a","g","e"," ","R","e","s","i","d","e","n","c","y"," ","(",")">>>>,
      <<<<"C","o","r","e","_","C","s","t","a","t","e">>,
        <<"C","P","U","/","P","a","c","k","a","g","e","_","0","/","C","o","r","e","_","0"," ","R","e","s","i","d","e","n","c","y"," ","(",")">>>>,
      <<<<"C","o","r","e","_","C","o","n","c","u","r","r","e","n","c","y">>,
        <<"T","i","m","e"," ","A","c","t","i","v","e"," ","(","%",")">>>>,
      <<<<"A","C","P","I","_","C","s","t","a","t","e">>,
        <<"C","P","U","/","P","a","c","k","a","g","e","_","0","/","C","o","r","e","_","0"," ","R","e","s","i","d","e","n","c","y"," ","(",")">>>>,
      <<<<"O","S","_","w","a","k","e","u","p","s">>,
        <<"P","r","o","c","e","s","s"," ","N","a","m","e"," ","(","P","I","D",")"," ","(","C","P","U"," ","%"," ","(","P","l","a","t","f","o","r","m",")",")">>>>,
      <<<<"C","P","U","-","i","G","P","U">>,
        <<"C","P","U","/","P","a","c","k","a","g","e","_","0"," ","R","e","s","i","d","e","n","c","y"," ","(","%",")">>>>,
      <<<<"C","P","U","_","P","a","v","r">>,
        <<"A","v","e","r","a","g","e"," ","(","M","H","z",")">>>>,
      <<<<"C","P","U","_","P","s","t","a","t","e">>,
        <<"F","r","e","q","u","e","n","c","y"," ","(","M","H","z",")">>>>,
      <<<<"R","C","_","C","s","t","a","t","e">>,
        <<"i","G","P","U","/","G","r","a","p","h","i","c","s"," ","R","e","s","i","d","e","n","c","y"," ","(",")">>>>,
      <<<<"C","P","U","_","t","e","m","p">>,
        <<"T","i","m","e","-","w","e","i","g","h","t","e","d"," ","A","v","g"," ","(","o","C",")">>>>,
      <<<<"S","o","C","_","t","e","m","p">>,
        <<"T","i","m","e","-","w","e","i","g","h","t","e","d"," ","A","v","g"," ","(","o","C",")">>>>,
      <<<<"N","P","U","_","D","s","t","a","t","e">>,
        <<"R","e","s","i","d","e","n","c","y"," ","(","%",")">>>>,
      <<<<"P","M","C","+","S","L","P","_","S","0">>,
        <<"D","e","s","c","r","i","p","t","i","o","n">>>>,
      <<<<"M","e","d","i","a","_","C","s","t","a","t","e">>,
        <<"R","e","s","i","d","e","n","c","y"," ","(",")">>>>,
      <<<<"N","P","U","_","P","s","t","a","t","e">>,
        <<"N","P","U"," ","(","%",")">>>>,
      <<<<"M","E","M","S","S","_","P","s","t","a","t","e">>,
        <<"M","E","M","S","S"," ","(","%",")">>>>,
      <<<<"N","o","C","_","P","s","t","a","t","e">>,
        <<"N","o","C"," ","(","%",")">>>>,
      <<<<"i","G","F","X","_","P","s","t","a","t","e">>,
        <<"i","G","F","X"," ","(","%",")">>>>
    >>

\* mapping.get(key, default) on a literal dict
MappingGet(mapping, key, default) ==
    IF \E i \in 1..Len(mapping) : mapping[i][1] = key
    THEN mapping[CHOOSE i \in 1..Len(mapping) : mapping[i][1] = key][2]
    ELSE default

get_table_header_text(table_key) == MappingGet(header_mapping, table_key, table_key)

get_table_header_value(table_key, table_data) ==
    IF EndsWith(table_key, <<"_", "B", "W">>)
    THEN (IF Len(table_data) > 0 THEN table_data[1].v ELSE StrV(<<"0", ".", "0", "0">>))
    ELSE StrV(MappingGet(value_mapping, table_key, ValueText))

\* for metric_key, metric_value in table_data.items(): target_metrics[data_key] = metric_value
RECURSIVE PutDataRows(_, _, _)
PutDataRows(target_metrics, table_data, table_key) ==
    IF Len(table_data) = 0 THEN target_metrics
    ELSE PutDataRows(Put(target_metrics, CompositeKey(table_data[1].k, table_key), table_data[1].v),
                     Tail(table_data), table_key)

\* the loop body with the pairs of the table put ahead of the earlier ones
MetricsOfTable_front(target_metrics, table_dict) ==
    LET table_key  == table_dict.table_key
        table_data == table_dict.data
        withHeader ==
            IF ~is_specialized_table_format(table_data, table_key)
            THEN Put(<<>>,
                     CompositeKey(get_table_header_text(table_key), table_key),
                     get_table_header_value(table_key, table_data))
            ELSE <<>>
    IN  IF Len(table_data) > 0
        THEN Update(PutDataRows(withHeader, table_data, table_key), target_metrics)
        ELSE target_metrics

\* the body of the loop of _extract_target_metrics for one table_dict
MetricsOfTable(target_metrics, table_dict) ==
    LET table_key  == table_dict.table_key
        table_data == table_dict.data
        withHeader ==
            IF ~is_specialized_table_format(table_data, table_key)
            THEN Put(target_metrics,
                     CompositeKey(get_table_header_text(table_key), table_key),
                     get_table_header_value(table_key, table_data))
            ELSE target_metrics
    IN  IF Len(table_data) > 0
        THEN PutDataRows(withHeader, table_data, table_key)
        ELSE target_metrics

\* validate_data without the test on the number of metrics
validate_data_lenient(data) ==
    /\ data.returned
    /\ data.data_type = "socwatch"

\* validate_data of SocwatchParser (with BaseParser.validate_data)
validate_data(data) ==
    /\ data.returned
    /\ data.data_type = "socwatch"
    /\ Len(data.socwatch_data) > 0

----------------------------------------------------------------------------
(* Inputs: the target catalog of the configuration and the report files *)

MaxTargets  == 2    \* targets in a catalog
MaxSections == 2    \* sections in a report file

L_CPU_model   == <<"C","P","U"," ","m","o","d","e","l">>
L_Core_Cstate == <<"C","o","r","e"," ","C","-","S","t","a","t","e">>
L_PKG_Cstate  == <<"P","a","c","k","a","g","e"," ","C","-","S","t","a","t","e">>
L_CPU_Pstate  == <<"C","P","U"," ","P","-","S","t","a","t","e">>
L_CPU_Pavr    == <<"P","-","S","t","a","t","e"," ","A","v","g">>

TargetPool ==
    { Target(K_CPU_model,   L_CPU_model,   FALSE, <<>>),
      Target(K_Core_Cstate, L_Core_Cstate, FALSE, <<>>),
      Target(K_PKG_Cstate,  L_PKG_Cstate,  FALSE, <<>>),
      Target(K_CPU_Pavr,    L_CPU_Pavr,    FALSE, <<>>),
      Target(K_CPU_Pstate,  L_CPU_Pstate,  FALSE, <<>>) }

\* catalogs: up to MaxTargets targets with distinct keys, in any order
Catalogs ==
    UNION { { c \in [1..n -> TargetPool] : \A i, j \in 1..n : i # j => c[i].key # c[j].key } :
            n \in 0..MaxTargets }

\* the sections report files are made of: a header line, rows, a blank line
SectionPool ==
    << << <<"C","P","U"," ","m","o","d","e","l">>,
          <<"a","/","M","o","d","e","l"," ","="," ","M","1">>,
          <<>> >>,
       << <<"C","o","r","e"," ","C","-","S","t","a","t","e">>,
          <<"-","-","-">>,
          <<"S","t","a","t","e",",","C","0"," ","(","%",")",",","C","1"," ","(","%",")">>,
          <<"A",",","4","5",".","2",",","3","2",".","1","2","6">>,
          <<>> >>,
       << <<"C","o","r","e"," ","C","-","S","t","a","t","e">>,
          <<"S","t","a","t","e"," ","(","x",")",",","C","0"," ","(","%",")">>,
          <<"B",",","1",".","5">>,
          <<>> >>,
       << <<"P","a","c","k","a","g","e"," ","C","-","S","t","a","t","e">>,
          <<"S","t","a","t","e"," ","(","%",")",",","R">>,
          <<"C","-","S","t","a","t","e",",","1",".","5">>,
          <<>> >>,
       << <<"P","-","S","t","a","t","e"," ","A","v","g">>,
          <<"C","P","U"," ","I","D",",","A","v","g">>,
          <<"c","0",",","i","n","f">>,
          <<"c","1",",","1","2","0","0",".","5">>,
          <<>> >>,
       << <<"L","e","g","e","n","d">>,
          <<"x",",","1">>,
          <<>> >>,
       << <<"C","P","U"," ","P","-","S","t","a","t","e">>,
          <<"P","0",",","1",".","5",",","7">>,
          <<"P","1",",","2",".","1","2","6",",","8">>,
          <<>> >>,
       << <<"C","P","U"," ","P","-","S","t","a","t","e">>,
          <<>> >>,
       << <<"P","-","S","t","a","t","e"," ","A","v","g">>,
          <<"c","0">>,
          <<"a","/","b","/","c","1",",","1","2","0","0",".","5">>,
          <<>> >>,
       << <<"P","a","c","k","a","g","e"," ","C","-","S","t","a","t","e">> >>,
       << <<"C","o","r","e"," ","C","-","S","t","a","t","e">>,
          <<"S","t","a","t","e",",","C","0"," ","(","%",")">>,
          <<"A",",","1",".","5">>,
          <<" "," ">>,
          <<"C","P","U"," ","P","-","S","t","a","t","e",",","9">>,
          <<>> >>,
       << <<"c","p","u"," ","p","-","s","t","a","t","e">>,
          <<"P","9",",","1">>,
          <<>> >>,
       << <<"N","P","U"," ","P","-","S","t","a","t","e">>,
          <<>> >> >>

\* sections 1 to 7 are whole tables; the later ones are a section with no
\* row, a table whose first row is short, a header with no blank line after
\* its section, a section closed by a line of spaces with a line holding
\* another lookup text behind it, a header in lower case, and the empty
\* section of the bucketed target
WholeSections == 1..7

Files == UNION { [1..n -> WholeSections] : n \in 0..MaxSections }

RECURSIVE LinesOf(_)
LinesOf(file) ==
    IF Len(file) = 0 THEN <<>> ELSE SectionPool[file[1]] \o LinesOf(Tail(file))

\* the text f.read() returns for a file
TextOf(file) == Join(LinesOf(file), <<"\n">>)

----------------------------------------------------------------------------
(* State *)

VARIABLES
    catalog,          \* socwatch_targets, as _load_socwatch_targets returns them
    file,             \* the report file handed to parse()
    pc,               \* where the call is
    lines,            \* content.split('\n')
    target_idx,       \* position of 'for target in socwatch_targets'
    table_start_idx,  \* where the scan for the lookup text of the target ended (-1: nowhere)
    raw_table_lines,  \* the rows _extract_table_data tokenized for the target
    socwatch_tables,  \* the table_dicts collected so far
    table_idx,        \* position of 'for table_dict in socwatch_tables'
    target_metrics,   \* the ResultMapping being built
    core_type_cache,  \* self._core_type_cache; <<>> while the attribute is unset
    warned_targets,   \* targets whose table function raised (the logged warning)
    result,           \* what parse() returned
    outcome,          \* how parse_file ended
    parse_count,      \* calls of parse() on this instance
    history,          \* the calls of parse() so far: file and ResultMapping of the nth call
    table_data,       \* tokenized rows handed to a table function
    label,            \* table key handed to socwatch_table_type_checker
    soc_target,       \* target descriptor handed to it
    parsed_data,      \* what it returned
    registry,         \* ParserRegistry._parsers: parser name to parser class, in insertion order
    config,           \* the 'parsers' section of the ParserConfig, in insertion order
    path,             \* the file a framework call is about: its name, its folder, its content
    calls             \* the framework calls made so far and how each ended

vars == <<catalog, file, pc, lines, target_idx, table_start_idx, raw_table_lines, socwatch_tables, table_idx, target_metrics,
          core_type_cache, warned_targets, result, outcome, parse_count, history,
          table_data, label, soc_target, parsed_data, registry, config, path, calls>>

parseVars == <<lines, target_idx, table_start_idx, raw_table_lines, socwatch_tables, table_idx, target_metrics,
               core_type_cache, warned_targets, result, outcome, parse_count, history>>

tableVars == <<table_data, label, soc_target, parsed_data>>

frameworkVars == <<registry, config, path, calls>>

\* a path: its name, what exists() and is_file() answer, the parser classes
\* whose can_parse does not answer False for it, the method of these classes
\* that raises on it ("none" when none does; "validate" when validate_data
\* answers False), the listing of its folder and its lines
NoPath == [name |-> <<>>, exists |-> FALSE, is_file |-> FALSE, accepted_by |-> {},
           fault |-> "none", folder |-> <<>>, content |-> <<>>]

\* no registry, no configuration, no file and no call
InitNoFramework ==
    /\ registry = <<>>
    /\ config = <<>>
    /\ path = NoPath
    /\ calls = <<>>

NoResult == [returned |-> FALSE, data_type |-> "none", socwatch_data |-> <<>>,
             tables_found |-> 0, targets_found |-> 0]

NoTarget == Target(<<>>, <<>>, FALSE, <<>>)

\* a fresh SocwatchParser about to parse one file
InitParser ==
    /\ pc = "parse"
    /\ lines = <<>>
    /\ target_idx = 0
    /\ table_start_idx = -1
    /\ raw_table_lines = <<>>
    /\ socwatch_tables = <<>>
    /\ table_idx = 0
    /\ target_metrics = <<>>
    /\ core_type_cache = <<>>
    /\ warned_targets = {}
    /\ result = NoResult
    /\ outcome = "none"
    /\ parse_count = 0
    /\ history = {}
    /\ InitNoFramework

InitNoTable ==
    /\ table_data = <<>>
    /\ label = <<>>
    /\ soc_target = NoTarget
    /\ parsed_data = Returned(<<>>)

Init ==
    /\ catalog \in Catalogs
    /\ file \in Files
    /\ InitParser
    /\ InitNoTable

----------------------------------------------------------------------------
(* SocwatchParser.parse, socwatch_parser.py:280-352 and 676-704 *)

\* parse(): read the file, split it into lines, start the target loop
ParseOpen ==
    /\ pc = "parse"
    /\ lines' = Split(TextOf(file), "\n")
    /\ socwatch_tables' = <<>>
    /\ target_idx' = 1
    /\ table_idx' = 0
    /\ target_metrics' = <<>>
    /\ warned_targets' = {}
    /\ parse_count' = parse_count + 1
    /\ pc' = "targets"
    /\ UNCHANGED <<catalog, file, core_type_cache, result, outcome, history>>
    /\ UNCHANGED <<table_start_idx, raw_table_lines>>
    /\ UNCHANGED tableVars
    /\ UNCHANGED frameworkVars

\* one turn of the target loop whose lookup text is in no line: continue
TargetNotFound ==
    /\ pc = "targets"
    /\ target_idx <= Len(catalog)
    /\ Locate(lines, catalog[target_idx].lookup) = -1
    /\ table_start_idx' = -1
    /\ target_idx' = target_idx + 1
    /\ UNCHANGED <<catalog, file, pc, lines, socwatch_tables, table_idx, target_metrics,
                   core_type_cache, warned_targets, result, outcome, parse_count, history>>
    /\ UNCHANGED raw_table_lines
    /\ UNCHANGED tableVars
    /\ UNCHANGED frameworkVars

\* one turn of the target loop whose lookup text is found: extract the table
\* and keep it when it has data
TargetTable ==
    /\ pc = "targets"
    /\ target_idx <= Len(catalog)
    /\ Locate(lines, catalog[target_idx].lookup) # -1
    /\ LET target == catalog[target_idx]
           x == extract_table_data(lines, Locate(lines, target.lookup), target, core_type_cache)
       IN  /\ socwatch_tables' =
                  IF Len(x.data) > 0
                  THEN Append(socwatch_tables,
                              [table_key |-> target.key, table_info |-> target, data |-> x.data])
                  ELSE socwatch_tables
           /\ core_type_cache' = x.cache
           /\ warned_targets' = IF x.warned THEN warned_targets \cup {target_idx}
                                ELSE warned_targets
           /\ table_start_idx' = Locate(lines, target.lookup)
           /\ raw_table_lines' = RawTableLines(lines, Locate(lines, target.lookup) + 1, <<>>)
    /\ target_idx' = target_idx + 1
    /\ UNCHANGED <<catalog, file, pc, lines, table_idx, target_metrics,
                   result, outcome, parse_count, history>>
    /\ UNCHANGED tableVars
    /\ UNCHANGED frameworkVars

\* the target loop is over: _extract_target_metrics starts
TargetsDone ==
    /\ pc = "targets"
    /\ target_idx > Len(catalog)
    /\ pc' = "metrics"
    /\ table_idx' = 1
    /\ target_metrics' = <<>>
    /\ UNCHANGED <<catalog, file, lines, target_idx, socwatch_tables,
                   core_type_cache, warned_targets, result, outcome, parse_count, history>>
    /\ UNCHANGED <<table_start_idx, raw_table_lines>>
    /\ UNCHANGED tableVars
    /\ UNCHANGED frameworkVars

\* one turn of the loop of _extract_target_metrics
TableMetrics ==
    /\ pc = "metrics"
    /\ table_idx <= Len(socwatch_tables)
    /\ target_metrics' = MetricsOfTable(target_metrics, socwatch_tables[table_idx])
    /\ table_idx' = table_idx + 1
    /\ UNCHANGED <<catalog, file, pc, lines, target_idx, socwatch_tables,
                   core_type_cache, warned_targets, result, outcome, parse_count, history>>
    /\ UNCHANGED <<table_start_idx, raw_table_lines>>
    /\ UNCHANGED tableVars
    /\ UNCHANGED frameworkVars

\* parse() returns its result dict
ParseReturn ==
    /\ pc = "metrics"
    /\ table_idx > Len(socwatch_tables)
    /\ result' = [returned |-> TRUE, data_type |-> "socwatch",
                  socwatch_data |-> target_metrics,
                  tables_found |-> Len(socwatch_tables),
                  targets_found |-> Len(target_metrics)]
    /\ history' = history \cup {[nth |-> parse_count, file |-> file, metrics |-> target_metrics]}
    /\ pc' = "validate"
    /\ UNCHANGED <<catalog, file, lines, target_idx, socwatch_tables, table_idx, target_metrics,
                   core_type_cache, warned_targets, outcome, parse_count>>
    /\ UNCHANGED <<table_start_idx, raw_table_lines>>
    /\ UNCHANGED tableVars
    /\ UNCHANGED frameworkVars

\* WorkloadParser.parse_file after parse(): a result that fails validate_data
\* becomes a ParsingError, a valid one is returned with '_metadata'
ValidateResult ==
    /\ pc = "validate"
    /\ outcome' = IF validate_data(result) THEN "returned" ELSE "ParsingError"
    /\ pc' = "done"
    /\ UNCHANGED <<catalog, file, lines, target_idx, socwatch_tables, table_idx, target_metrics,
                   core_type_cache, warned_targets, result, parse_count, history>>
    /\ UNCHANGED <<table_start_idx, raw_table_lines>>
    /\ UNCHANGED tableVars
    /\ UNCHANGED frameworkVars

Next ==
    \/ ParseOpen
    \/ TargetNotFound
    \/ TargetTable
    \/ TargetsDone
    \/ TableMetrics
    \/ ParseReturn
    \/ ValidateResult

Spec == Init /\ [][Next]_vars

----------------------------------------------------------------------------
(* Properties of the ResultMapping *)

\* parse() has built the whole ResultMapping
Parsed == pc \in {"validate", "done"}

\* the catalog position of the target a composite key belongs to: the target
\* whose key follows the last separator
OwnerOf(composite_key) ==
    CHOOSE i \in 1..Len(catalog) : EndsWith(composite_key, Separator \o catalog[i].key)

\* the first line holding the lookup text of catalog target i (-1: none)
LocatedAt(i) == Locate(lines, catalog[i].lookup)

\* C1 - Order preservation: the keys of the ResultMapping are grouped by
\* target in catalog order: a key of target A (data pair or header pair)
\* never comes after a key of a target B that follows A in the catalog.
C1_OrderPreservation ==
    \A i, j \in 1..Len(target_metrics) :
        i < j => OwnerOf(target_metrics[i].k) <= OwnerOf(target_metrics[j].k)

\* two targets matched, the second one higher up in the file than the first,
\* and the first table got a synthesized header pair ahead of its data
C1_Witness ==
    /\ pc = "done"
    /\ Len(socwatch_tables) = 2
    /\ LocatedAt(1) > LocatedAt(2)
    /\ Len(target_metrics) > Len(socwatch_tables[1].data) + Len(socwatch_tables[2].data)
    /\ OwnerOf(target_metrics[1].k) = 1
    /\ OwnerOf(target_metrics[Len(target_metrics)].k) = 2

\* the number of pairs the Aggregator emits for the tables: one per data pair
\* and one per synthesized header
RECURSIVE EmittedPairs(_)
EmittedPairs(tables) ==
    IF Len(tables) = 0 THEN 0
    ELSE Len(tables[1].data)
         + (IF is_specialized_table_format(tables[1].data, tables[1].table_key) THEN 0 ELSE 1)
         + EmittedPairs(Tail(tables))

\* C2 - Key uniqueness: every emitted pair has its own composite key, so the
\* ResultMapping has as many entries as pairs were emitted (header pairs plus
\* the data pairs of all tables).
C2_KeyUniqueness ==
    Parsed => Len(target_metrics) = EmittedPairs(socwatch_tables)

\* no target's lookup text occurs in the document
ZeroMatch == \A i \in 1..Len(catalog) : LocatedAt(i) = -1

\* C4 (as claimed) - Zero-match is not an error: with no lookup text in the
\* document, parse and parse_file both hand back a valid result with an
\* empty ResultMapping.
C4_ZeroMatchReturned ==
    (pc = "done" /\ ZeroMatch) =>
        /\ result.returned
        /\ result.socwatch_data = <<>>
        /\ outcome = "returned"

\* C4 (amended) - with no lookup text in the document, parse returns a result
\* with an empty ResultMapping and no table; validate_data rejects it, so
\* parse_file ends in a ParsingError.
C4_ZeroMatchRejected ==
    (Parsed /\ ZeroMatch) =>
        /\ result.returned
        /\ result.socwatch_data = <<>>
        /\ result.tables_found = 0
        /\ pc = "done" => outcome = "ParsingError"

C4_Witness ==
    /\ pc = "done"
    /\ ZeroMatch
    /\ Len(catalog) > 0
    /\ Len(lines) > 1

----------------------------------------------------------------------------
(* One SocwatchParser instance used for several files *)

MaxParses          == 3    \* calls of parse() on one instance
MaxSessionSections == 1    \* sections in a file of a session
MaxSwapParses      == 2    \* calls of parse() when a file is parsed again with sections swapped

\* the sections of the files of a session: a CPU_model table, a table
\* whose extractor raises and a CPU_Pstate table
SessionSections == {1, 5, 7}

SessionFiles == UNION { [1..n -> SessionSections] : n \in 0..MaxSessionSections }

\* catalogs that start with the CPU_model target, whose table fills the cache
SessionCatalogs ==
    { c \in Catalogs : /\ Len(c) = 2
                       /\ c[1].key = K_CPU_model
                       /\ c[2].key \in {K_CPU_Pstate, K_CPU_Pavr} }

\* parse() is called again on the same instance: the attributes of the
\* instance (the identity cache) stay, the locals of the call start afresh
ParseAgain(f) ==
    /\ pc = "done"
    /\ file' = f
    /\ pc' = "parse"
    /\ result' = NoResult
    /\ outcome' = "none"
    /\ UNCHANGED <<catalog, lines, target_idx, socwatch_tables, table_idx, target_metrics,
                   core_type_cache, warned_targets, parse_count, history>>
    /\ UNCHANGED <<table_start_idx, raw_table_lines>>
    /\ UNCHANGED tableVars
    /\ UNCHANGED frameworkVars

Reparse ==
    /\ parse_count < MaxParses
    /\ \E f \in SessionFiles : ParseAgain(f)

InitSession ==
    /\ catalog \in SessionCatalogs
    /\ file \in SessionFiles
    /\ InitParser
    /\ InitNoTable

NextSession == Next \/ Reparse

SpecSession == InitSession /\ [][NextSession]_vars

\* C3 - Determinism and document independence: a file always yields the same
\* ResultMapping on one instance, whatever the instance parsed before: all
\* the results recorded for one file are equal.
C3_DocumentIndependence ==
    \A h1, h2 \in history : h1.file = h2.file => h1.metrics = h2.metrics

\* a file with a CPU_Pstate table was parsed on the fresh instance and again
\* after a CPU_model table had filled the identity cache
C3_Witness ==
    /\ pc = "done"
    /\ core_type_cache # <<>>
    /\ Len(socwatch_tables) = 1
    /\ socwatch_tables[1].table_key = K_CPU_Pstate
    /\ \E h1, h2, h3 \in history :
          /\ h1.nth = 1 /\ h2.nth = 2 /\ h3.nth = 3
          /\ h1.file = h3.file
          /\ h2.file # h1.file
          /\ h1.metrics # <<>>
          /\ h3.metrics = target_metrics

----------------------------------------------------------------------------
(* A file parsed again with two of its sections swapped *)

SwapSections(f, i, j) == [f EXCEPT ![i] = f[j], ![j] = f[i]]

\* section n of the file is a matching section: its header line holds the
\* lookup text of a catalog target
IsMatchingSection(f, n) ==
    \E t \in 1..Len(catalog) : Contains(catalog[t].lookup, SectionPool[f[n]][1])

ParseSwapped ==
    /\ parse_count < MaxSwapParses
    /\ \E i, j \in 1..Len(file) :
          /\ i < j
          /\ file[i] # file[j]
          /\ IsMatchingSection(file, i)
          /\ IsMatchingSection(file, j)
          /\ ParseAgain(SwapSections(file, i, j))

NextSwap == Next \/ ParseSwapped

SpecSwap == Init /\ [][NextSwap]_vars

\* g is f with two matching sections swapped
IsSwapOf(f, g) ==
    /\ Len(f) = Len(g)
    /\ \E i, j \in 1..Len(f) :
          /\ i < j
          /\ IsMatchingSection(f, i)
          /\ IsMatchingSection(f, j)
          /\ g = SwapSections(f, i, j)

\* the number of lines of the file that hold the text
Occurrences(f, text) ==
    Cardinality({n \in 1..Len(LinesOf(f)) : Contains(text, LinesOf(f)[n])})

\* every lookup text of the catalog is in at most one line of the file
LookupsUnique(f) ==
    \A t \in 1..Len(catalog) : Occurrences(f, catalog[t].lookup) <= 1

\* C5 (as claimed) - Lookup independence from position: swapping two matching
\* sections of a document leaves the order of the keys of the ResultMapping
\* unchanged, for any catalog and any document.
C5_SwapKeepsKeys ==
    \A h1, h2 \in history :
        IsSwapOf(h1.file, h2.file) => Keys(h1.metrics) = Keys(h2.metrics)

\* C5 (amended) - the same, for documents in which every lookup text occurs
\* in at most one line.
C5_SwapKeepsKeysUniqueLookups ==
    \A h1, h2 \in history :
        (IsSwapOf(h1.file, h2.file) /\ LookupsUnique(h1.file)) =>
            Keys(h1.metrics) = Keys(h2.metrics)

\* both orders of two sections of different targets were parsed and both
\* gave the keys of the two tables
C5_Witness ==
    /\ pc = "done"
    /\ Len(socwatch_tables) = 2
    /\ \E h1, h2 \in history :
          /\ h1.file # h2.file
          /\ IsSwapOf(h1.file, h2.file)
          /\ LookupsUnique(h1.file)
          /\ Len(h1.metrics) > 2

----------------------------------------------------------------------------
(* The table functions on their own: socwatch_table_type_checker applied   *)
(* to tokenized rows                                                       *)

MaxRows       == 3    \* rows of a table handed to the table functions
MaxBuckets    == 2    \* bucket specs of a descriptor
MaxBucketRows == 2    \* data rows of a bucketed table

\* tokenized rows: short rows, two-column rows with numeric and non-numeric
\* values, colon-scalar rows, a temperature row, a ranked-list row
RowPool ==
    { <<<<"c","0">>>>,
      <<<<"C","P","U"," ","I","D">>, <<"A","v","g">>>>,
      <<<<"a","/","b","/","c","1">>, <<"1","2","0","0",".","5">>>>,
      <<<<"c","2">>, <<"i","n","f">>>>,
      <<<<"c","3">>, <<"n","a","n">>>>,
      <<<<"c","4">>, <<>>>>,
      <<<<"k",":"," ","1","2">>>>,
      <<<<"k","2",":"," ","1",".","5","x">>>>,
      <<<<"t","/","p">>, <<"1">>, <<"2">>, <<"3">>, <<"4","5",".","1","2","6">>>>,
      <<<<"2">>, <<"p","r","o","c"," ","(","1","2",")">>, <<"5",".","5"," ","%">>>> }

LabelPool ==
    { K_CPU_model, K_Core_Cstate, K_OS_wakeups, K_CPU_Pavr, K_CPU_Pstate, K_DC_count,
      K_DDR_BW, K_CPU_temp, K_PMC_SLP_S0, K_PKG_Cstate, K_NPU_Pstate }

Tables == UNION { [1..n -> RowPool] : n \in 1..MaxRows }

\* no SocwatchParser call is in progress
InitNoSocwatch ==
    /\ catalog = <<>>
    /\ file = <<>>
    /\ lines = <<>>
    /\ target_idx = 0
    /\ table_start_idx = -1
    /\ raw_table_lines = <<>>
    /\ socwatch_tables = <<>>
    /\ table_idx = 0
    /\ target_metrics = <<>>
    /\ core_type_cache = <<>>
    /\ warned_targets = {}
    /\ result = NoResult
    /\ outcome = "none"
    /\ parse_count = 0
    /\ history = {}

\* the harness holds no parser
InitNoParser ==
    /\ InitNoSocwatch
    /\ InitNoFramework

InitTable ==
    /\ InitNoParser
    /\ pc = "classify"
    /\ label \in LabelPool
    /\ table_data \in Tables
    /\ soc_target = Target(label, <<>>, FALSE, <<>>)
    /\ parsed_data = Returned(<<>>)

\* socwatch_table_type_checker is called on the rows
Classify ==
    /\ pc = "classify"
    /\ parsed_data' = socwatch_table_type_checker(table_data, label, <<>>, soc_target, <<>>)
    /\ pc' = "classified"
    /\ UNCHANGED <<catalog, file, table_data, label, soc_target>>
    /\ UNCHANGED parseVars
    /\ UNCHANGED frameworkVars

NextTable == Classify

SpecTable == InitTable /\ [][NextTable]_vars

\* bucket specs: specs that are neither a label nor a range, then exact
\* labels and ranges (two of them overlapping)
BucketPool ==
    << <<"x">>, <<"1","-","x">>, <<"1","-","2","-","3">>, <<"-","5">>, <<"1",".","5","-","9">>,
       <<"0">>, <<"5">>, <<"1","-","9">>, <<"5","-","1","2">> >>

\* bucket lists: up to MaxBuckets distinct specs, in the order of the pool
BucketLists ==
    UNION { { [i \in 1..n |-> BucketPool[ix[i]]] :
              ix \in { jx \in [1..n -> 1..Len(BucketPool)] :
                           \A a, b \in 1..n : a < b => jx[a] < jx[b] } } :
            n \in 1..MaxBuckets }

BucketHeaderRow == <<<<"F","r","e","q","u","e","n","c","y"," ","(","M","H","z",")">>, <<"N","P","U"," ","(","%",")">>>>

\* data rows of a P-state table: frequency, residency
BucketRowPool ==
    { <<<<"0">>, <<"5",".","0">>>>,
      <<<<"5">>, <<"3",".","0">>>>,
      <<<<"7">>, <<"4",".","0">>>>,
      <<<<"1","2">>, <<"1",".","0">>>>,
      <<<<"7",".","5">>, <<"1",".","0">>>>,
      <<<<"x">>, <<"2",".","0">>>>,
      <<<<"5">>, <<"n","/","a">>>>,
      <<<<"9">>>> }

\* row 0 of a bucketed table: the header, or a row that looks like data
BucketFirstRows == { BucketHeaderRow, <<<<"5">>, <<"3",".","0">>>> }

BucketTables ==
    UNION { { <<h>> \o r : h \in BucketFirstRows, r \in [1..n -> BucketRowPool] } :
            n \in 0..MaxBucketRows }

\* the table and the buckets of the bucket-accumulation example
ExampleBuckets == << <<"0">>, <<"1","9","0","0">>, <<"1","9","0","1","-","2","9","0","0">> >>

ExampleTable ==
    << <<<<"F","r","e","q","u","e","n","c","y"," ","(","M","H","z",")">>, <<"N","P","U"," ","(","%",")">>>>,
      <<<<"0">>, <<"5",".","0">>>>,
      <<<<"1","9","0","0">>, <<"3",".","0">>>>,
      <<<<"2","0","0","0">>, <<"4",".","0">>>>,
      <<<<"2","5","0","0">>, <<"1",".","0">>>> >>

InitBucket ==
    /\ InitNoParser
    /\ pc = "classify"
    /\ label = K_NPU_Pstate
    /\ \/ table_data \in BucketTables /\ \E b \in BucketLists : soc_target = Target(label, <<>>, TRUE, b)
       \/ table_data = ExampleTable /\ soc_target = Target(label, <<>>, TRUE, ExampleBuckets)
    /\ parsed_data = Returned(<<>>)

SpecBucket == InitBucket /\ [][NextTable]_vars

----------------------------------------------------------------------------
(* Properties of the Bucketing Transform *)

Classified == pc = "classified"

Bucketed == Classified /\ soc_target.hasBuckets /\ Len(soc_target.buckets) > 0

BucketSet == { soc_target.buckets[i] : i \in 1..Len(soc_target.buckets) }

\* the value of a bucket in the result, in thousandths
BucketMilli(b) ==
    LET v == Get(parsed_data.data, b) IN IF v.t = "int" THEN v.n * 1000 ELSE v.n

\* "<integer>-<integer>"
IsIntRange(b) ==
    /\ HasChar("-", b)
    /\ Len(Split(b, "-")) = 2
    /\ IsDigits(Split(b, "-")[1])
    /\ IsDigits(Split(b, "-")[2])

\* the bounds of a range spec, in thousandths
RangeLo(b) == MilliOf(Split(b, "-")[1])
RangeHi(b) == MilliOf(Split(b, "-")[2])

\* "<number>" or "<number>-<number>"
IsNumber(x) == IsDecimalLit(x) /\ ~HasChar("-", x) /\ ~HasChar("+", x)

IsWellFormedSpec(b) ==
    \/ IsNumber(b)
    \/ /\ Len(Split(b, "-")) = 2
       /\ IsNumber(Split(b, "-")[1])
       /\ IsNumber(Split(b, "-")[2])

\* data rows (row 0 is the header) with a key and a numeric value
DataRows == { i \in 2..Len(table_data) : Len(table_data[i]) >= 2 /\ IsDecimalLit(table_data[i][2]) }

\* data rows whose key, read as a number, lies in the inclusive range of b
RowsInRange(b) ==
    { i \in DataRows : /\ IsDecimalLit(table_data[i][1])
                       /\ RangeLo(b) <= MilliOf(table_data[i][1])
                       /\ MilliOf(table_data[i][1]) <= RangeHi(b) }

\* the same, for keys that are integer literals
IntRowsInRange(b) == { i \in RowsInRange(b) : IsIntLit(table_data[i][1]) }

\* data rows whose key is the label b
RowsWithKey(b) == { i \in DataRows : table_data[i][1] = b }

RECURSIVE SumOfRows(_)
SumOfRows(S) ==
    IF S = {} THEN 0
    ELSE LET i == CHOOSE j \in S : TRUE
         IN  MilliOf(table_data[i][2]) + SumOfRows(S \ {i})

MaxOf(S) == CHOOSE i \in S : \A j \in S : j <= i

MinOf(S) == CHOOSE i \in S : \A j \in S : i <= j

\* an exact-label bucket holds the value of the last row with that key
ExactAssigned(b) ==
    IF RowsWithKey(b) = {} THEN BucketMilli(b) = 0
    ELSE BucketMilli(b) = MilliOf(table_data[MaxOf(RowsWithKey(b))][2])

----------------------------------------------------------------------------
(* Properties of the shape extractors *)

\* the shapes that read one pair from each row
RowShapeLabels == { K_CPU_Pavr, K_CPU_Pstate, K_PMC_SLP_S0, K_PKG_Cstate }

\* the number of fields such a row needs
FieldsNeeded(l) == IF l = K_PMC_SLP_S0 THEN 3 ELSE 2

WellFormedRows == { i \in 1..Len(table_data) : Len(table_data[i]) >= FieldsNeeded(label) }

\* the key a well-formed row is extracted under
RowKey(i) ==
    IF label = K_CPU_Pavr
    THEN IF i = 1 THEN table_data[i][1] ELSE FreqKey(table_data[i][1])
    ELSE PstateKey(table_data[i][1], i - 1)

\* a value field spells an infinity
SpellsInfinity == \E i \in WellFormedRows : IsInfLit(table_data[i][FieldsNeeded(label)])

\* C6 - Malformed row tolerance: a row with fewer fields than the extractor
\* needs, the first row included, never raises and contributes no pair, and
\* every well-formed row of the same table is still extracted.
C6_MalformedRowTolerance ==
    (Classified /\ label \in RowShapeLabels /\ ~SpellsInfinity) =>
        /\ ~parsed_data.raised
        /\ \A i \in WellFormedRows : HasKey(parsed_data.data, RowKey(i))
        /\ \A j \in 1..Len(parsed_data.data) :
              \E i \in WellFormedRows : parsed_data.data[j].k = RowKey(i)

\* C8 - Numeric coercion never raises: whatever string stands in a value
\* position, the extractor returns, and each value it emits is a number or
\* a string.
C8_CoercionNeverRaises ==
    Classified =>
        /\ ~parsed_data.raised
        /\ \A j \in 1..Len(parsed_data.data) :
              parsed_data.data[j].v.t \in {"str", "int", "float"}

----------------------------------------------------------------------------
(* Properties of the except branch of _extract_table_data *)

\* the tokenized rows of the section of catalog target t
RowsOf(t) == RawTableLines(lines, Locate(lines, catalog[t].lookup) + 1, <<>>)

\* the positions, in socwatch_tables, of the tables of catalog target t
TablesOfTarget(t) ==
    { n \in 1..Len(socwatch_tables) : socwatch_tables[n].table_key = catalog[t].key }

\* the target loop has gone past every target
LoopOver == pc \in {"metrics", "return", "validate", "done"}

\* every later target whose section yields data has its table, after t's
LaterTargetsProcessed(t) ==
    \A u \in (t + 1)..Len(catalog) :
        ( /\ Locate(lines, catalog[u].lookup) # -1
          /\ catalog[u].key # catalog[t].key
          /\ Len(extract_table_data(lines, Locate(lines, catalog[u].lookup),
                                    catalog[u], <<>>).data) > 0 )
        => \E n \in TablesOfTarget(u) : \A m \in TablesOfTarget(t) : m < n

PairRows(rows) == { i \in 1..Len(rows) : Len(rows[i]) >= 2 }

FirstRowOf(rows, k) == CHOOSE i \in PairRows(rows) :
    rows[i][1] = k /\ \A j \in PairRows(rows) : rows[j][1] = k => i <= j

LastRowOf(rows, k) == CHOOSE i \in PairRows(rows) :
    rows[i][1] = k /\ \A j \in PairRows(rows) : rows[j][1] = k => j <= i

\* d maps field 0 to the unconverted text of field 1, for the rows of two
\* fields or more, in the order the keys first occur
IsRawTwoColumn(d, rows) ==
    /\ \A i \in PairRows(rows) : HasKey(d, rows[i][1])
    /\ \A j \in 1..Len(d) :
          /\ \E i \in PairRows(rows) : rows[i][1] = d[j].k
          /\ d[j].v = StrV(rows[LastRowOf(rows, d[j].k)][2])
    /\ \A j1, j2 \in 1..Len(d) :
          j1 < j2 => FirstRowOf(rows, d[j1].k) < FirstRowOf(rows, d[j2].k)

----------------------------------------------------------------------------
(* Report files with sections that give no table *)

L_NPU_Pstate == <<"N","P","U"," ","P","-","S","t","a","t","e">>

ProbeBuckets == << <<"0">>, <<"1","-","9">> >>

ProbeTargetPool ==
    { Target(K_Core_Cstate, L_Core_Cstate, FALSE, <<>>),
      Target(K_PKG_Cstate,  L_PKG_Cstate,  FALSE, <<>>),
      Target(K_CPU_Pavr,    L_CPU_Pavr,    FALSE, <<>>),
      Target(K_CPU_Pstate,  L_CPU_Pstate,  FALSE, <<>>),
      Target(K_NPU_Pstate,  L_NPU_Pstate,  TRUE,  ProbeBuckets) }

ProbeCatalogs ==
    UNION { { c \in [1..n -> ProbeTargetPool] : \A i, j \in 1..n : i # j => c[i].key # c[j].key } :
            n \in 0..MaxTargets }

ProbeSections == {2, 7, 8, 9, 10, 11, 12, 13}

ProbeFiles == UNION { [1..n -> ProbeSections] : n \in 0..MaxSections }

InitProbe ==
    /\ catalog \in ProbeCatalogs
    /\ file \in ProbeFiles
    /\ InitParser
    /\ InitNoTable

SpecProbe == InitProbe /\ [][Next]_vars

\* the zero-based index of the lowest line that holds the text, -1 when no
\* line does
FirstLineWith(text) ==
    IF \E n \in 1..Len(lines) : Contains(text, lines[n])
    THEN (CHOOSE n \in 1..Len(lines) :
              /\ Contains(text, lines[n])
              /\ \A m \in 1..(n - 1) : ~Contains(text, lines[m])) - 1
    ELSE -1

\* the target loop has dealt with a target: the one before target_idx
TargetTurned == pc # "parse" /\ target_idx > 1

\* C19 - Section Locator: whatever the earlier targets matched, a target is
\* located at the lowest line that holds its lookup text as a case-sensitive
\* substring, no table comes from a later line with the same text, a target
\* gives at most one table, and a text in no line gives the sentinel -1.
C19_SectionLocator ==
    /\ TargetTurned => table_start_idx = FirstLineWith(catalog[target_idx - 1].lookup)
    /\ \A t \in 1..Len(catalog) : Cardinality(TablesOfTarget(t)) <= 1
    /\ LoopOver =>
          \A n \in 1..Len(socwatch_tables) :
              socwatch_tables[n].data =
                  extract_table_data(lines, FirstLineWith(socwatch_tables[n].table_info.lookup),
                                     socwatch_tables[n].table_info, <<>>).data

\* the second target was located above the first one, its lookup text is in
\* a later line too, and both gave a table
C19_Witness ==
    /\ pc = "done"
    /\ Len(catalog) = 2
    /\ table_start_idx >= 0
    /\ FirstLineWith(catalog[1].lookup) > table_start_idx
    /\ Occurrences(file, catalog[2].lookup) > 1
    /\ Len(socwatch_tables) = 2

\* the one-based index of the line that ends the section whose header is
\* line h (zero-based): the first later line that is empty once trimmed, or
\* the index past the last line
SectionEnd(h) ==
    IF \E n \in (h + 2)..Len(lines) : Strip(lines[n]) = <<>>
    THEN CHOOSE n \in (h + 2)..Len(lines) :
             /\ Strip(lines[n]) = <<>>
             /\ \A m \in (h + 2)..(n - 1) : Strip(lines[m]) # <<>>
    ELSE Len(lines) + 1

Tokens(line) == CleanParts(Split(Strip(line), ","))

IsRowLine(line) == ~IsSeparatorLine(Strip(line)) /\ Len(Tokens(line)) > 0

\* the rows of the lines strictly between the header h and the end of its
\* section, in the order of the lines
SectionRows(h) ==
    LET kept == SelectSeq(SubSeq(lines, h + 2, SectionEnd(h) - 1), IsRowLine)
    IN  [n \in 1..Len(kept) |-> Tokens(kept[n])]

\* C20 - Tokenizer termination: the rows of a section are those of the lines
\* after the located header and before the first later line that is empty
\* once trimmed (or the end of the input), in the order of the lines; no line
\* at or after that line gives a row.
C20_TokenizerTermination ==
    (TargetTurned /\ table_start_idx # -1) => raw_table_lines = SectionRows(table_start_idx)

\* a section with rows was closed by a line of spaces that has text after it
C20_Witness ==
    /\ pc = "done"
    /\ table_start_idx # -1
    /\ Len(raw_table_lines) > 1
    /\ SectionEnd(table_start_idx) < Len(lines)
    /\ lines[SectionEnd(table_start_idx)] # <<>>
    /\ Len(Tokens(lines[SectionEnd(table_start_idx) + 1])) > 1

\* target t has no data: its lookup text is in no line, or its section has
\* no row, or its extractor returns an empty mapping
Absent(t)       == FirstLineWith(catalog[t].lookup) = -1
EmptySection(t) == ~Absent(t) /\ SectionRows(FirstLineWith(catalog[t].lookup)) = <<>>
EmptyData(t) ==
    /\ ~Absent(t)
    /\ ~EmptySection(t)
    /\ extract_table_data(lines, FirstLineWith(catalog[t].lookup), catalog[t], <<>>).data = <<>>

WithoutData(t) == Absent(t) \/ EmptySection(t) \/ EmptyData(t)

\* the catalog without target t
CatalogWithout(t) == SubSeq(catalog, 1, t - 1) \o SubSeq(catalog, t + 1, Len(catalog))

\* the tables _parse_socwatch_content collects for a catalog
RECURSIVE TablesOfCatalog(_, _, _)
TablesOfCatalog(cat, cache, tables) ==
    IF Len(cat) = 0 THEN tables
    ELSE LET at == FirstLineWith(cat[1].lookup)
             x  == extract_table_data(lines, at, cat[1], cache)
         IN  IF at = -1 THEN TablesOfCatalog(Tail(cat), cache, tables)
             ELSE TablesOfCatalog(Tail(cat), x.cache,
                      IF Len(x.data) > 0
                      THEN Append(tables, [table_key |-> cat[1].key, table_info |-> cat[1],
                                           data |-> x.data])
                      ELSE tables)

\* the ResultMapping _extract_target_metrics builds from tables
RECURSIVE MetricsOfTables(_, _)
MetricsOfTables(tables, metrics) ==
    IF Len(tables) = 0 THEN metrics
    ELSE MetricsOfTables(Tail(tables), MetricsOfTable(metrics, tables[1]))

\* C11 - Targets without data contribute nothing: a target whose lookup text
\* is absent, whose section has no row or whose extractor returns an empty
\* mapping has no key in the ResultMapping, neither a data pair nor a header
\* pair, and the ResultMapping is the one of the catalog without that target.
C11_NoDataNoKeys ==
    Parsed =>
        \A t \in 1..Len(catalog) :
            WithoutData(t) =>
                /\ \A n \in 1..Len(target_metrics) :
                      ~EndsWith(target_metrics[n].k, Separator \o catalog[t].key)
                /\ TablesOfTarget(t) = {}
                /\ target_metrics = MetricsOfTables(TablesOfCatalog(CatalogWithout(t), <<>>, <<>>), <<>>)

\* the bucketed target has a section with no row and the other target a table
C11_Witness ==
    /\ pc = "done"
    /\ Len(catalog) = 2
    /\ catalog[1].hasBuckets
    /\ EmptySection(1)
    /\ Len(target_metrics) > 1

----------------------------------------------------------------------------
(* A residency table on its own: socwatch_table_type_checker, then the     *)
(* loop body of _extract_target_metrics on its result                      *)

ResidencyHeaderPool ==
    { <<<<"S","t","a","t","e">>, <<"C","0"," ","(","%",")">>, <<"C","1"," ","(","%",")">>>>,
      <<<<"S","t","a","t","e"," ","(","x",")">>, <<"a","/","b","/","C","0"," ","(","%",")">>, <<"T","i","m","e">>, <<"C","1"," ","(","%",")">>>>,
      <<<<"C","0"," ","(","%",")">>, <<"x","/","C","0"," ","(","%",")">>>>,
      <<<<"S","t","a","t","e">>>> }

ResidencyRowPool ==
    { <<<<"A">>, <<"4","5",".","2">>, <<"3","2",".","1">>>>,
      <<<<"B">>, <<"1",".","1","2","6">>, <<"n","/","a">>, <<"7">>>>,
      <<<<"C">>>>,
      <<<<"D">>, <<"i","n","f">>>> }

ResidencyTables ==
    { <<h, d>> : h \in ResidencyHeaderPool, d \in ResidencyRowPool }
    \cup { <<h, d, e>> : h \in ResidencyHeaderPool, d \in ResidencyRowPool, e \in ResidencyRowPool }
    \cup { <<h>> : h \in ResidencyHeaderPool }

InitResidency ==
    /\ InitNoParser
    /\ pc = "classify"
    /\ label \in {K_Core_Cstate, K_ACPI_Cstate}
    /\ table_data \in ResidencyTables
    /\ soc_target = Target(label, <<>>, FALSE, <<>>)
    /\ parsed_data = Returned(<<>>)

\* the table that has data goes through the loop body of _extract_target_metrics
Flatten ==
    /\ pc = "classified"
    /\ ~parsed_data.raised
    /\ Len(parsed_data.data) > 0
    /\ socwatch_tables' = <<[table_key |-> label, table_info |-> soc_target,
                             data |-> parsed_data.data]>>
    /\ target_metrics' = MetricsOfTable(<<>>, [table_key |-> label, table_info |-> soc_target,
                                                data |-> parsed_data.data])
    /\ pc' = "flattened"
    /\ UNCHANGED <<catalog, file, lines, target_idx, table_start_idx, raw_table_lines, table_idx,
                   core_type_cache, warned_targets, result, outcome, parse_count, history>>
    /\ UNCHANGED tableVars
    /\ UNCHANGED frameworkVars

NextFlatten == Classify \/ Flatten

SpecResidency == InitResidency /\ [][NextFlatten]_vars

\* the text of a header cell after its last '/'
AfterLastSlash(cell) == Last(Split(cell, "/"))

\* the one-based column the walk stops at: the first one, after column 1,
\* that the header or the data row lacks or whose key has no '(%)' marker
StopColumn(H, D) ==
    CHOOSE c \in 2..(Len(H) + 1) :
        /\ (c > Len(H) \/ c > Len(D) \/ ~Contains(PercentMarker, AfterLastSlash(H[c])))
        /\ \A b \in 2..(c - 1) :
              b <= Len(H) /\ b <= Len(D) /\ Contains(PercentMarker, AfterLastSlash(H[b]))

\* the columns that give the key k
ColumnsOf(H, D, k) == { c \in 2..(StopColumn(H, D) - 1) : AfterLastSlash(H[c]) = k }

\* d is the mapping of header row H and data row D
IsResidencyMapping(d, H, D) ==
    /\ Len(d) > 0
    /\ d[1].k = H[1]
    /\ \A c \in 2..(StopColumn(H, D) - 1) : HasKey(d, AfterLastSlash(H[c]))
    /\ \A j \in 1..Len(d) :
          IF ColumnsOf(H, D, d[j].k) # {}
          THEN d[j].v = RoundOrKeep(D[MaxOf(ColumnsOf(H, D, d[j].k))])
          ELSE d[j].k = H[1] /\ d[j].v = StrV(D[1])
    /\ \A j1, j2 \in 2..Len(d) :
          j1 < j2 => \E c \in ColumnsOf(H, D, d[j1].k) :
                        \A b \in ColumnsOf(H, D, d[j2].k) : c < b

\* C12 - Residency-row extraction: with header row H and first data row D
\* the result maps H[0] to D[0], then the text after the last '/' of H[i] to
\* D[i], rounded to 2 decimals when numeric, column by column up to the first
\* header column without the '(%)' marker, and each pair is in the
\* ResultMapping under its key followed by the separator and the target key.
C12_ResidencyRows ==
    /\ (Classified /\ label \in {K_Core_Cstate, K_ACPI_Cstate} /\ Len(table_data) >= 2) =>
           /\ ~parsed_data.raised
           /\ IsResidencyMapping(parsed_data.data, table_data[1], table_data[2])
    /\ (pc = "flattened" /\ label \in {K_Core_Cstate, K_ACPI_Cstate}) =>
           \A j \in 1..Len(parsed_data.data) :
               /\ HasKey(target_metrics, CompositeKey(parsed_data.data[j].k, label))
               /\ Get(target_metrics, CompositeKey(parsed_data.data[j].k, label)) =
                      parsed_data.data[j].v

\* "State,C0 (%),C1 (%)" / "A,45.2,32.1" under Core_Cstate
C12_Witness ==
    /\ pc = "flattened"
    /\ label = K_Core_Cstate
    /\ table_data = <<<<<<"S","t","a","t","e">>, <<"C","0"," ","(","%",")">>, <<"C","1"," ","(","%",")">>>>, <<<<"A">>, <<"4","5",".","2">>, <<"3","2",".","1">>>>>>
    /\ target_metrics =
          << [k |-> CompositeKey(<<"S","t","a","t","e">>, K_Core_Cstate), v |-> StrV(<<"A">>)],
             [k |-> CompositeKey(<<"C","0"," ","(","%",")">>, K_Core_Cstate), v |-> FloatV(45200)],
             [k |-> CompositeKey(<<"C","1"," ","(","%",")">>, K_Core_Cstate), v |-> FloatV(32100)] >>

----------------------------------------------------------------------------
(* A colon-scalar table on its own                                         *)

\* rows with one colon, with two colons and with none in the first field
ColonRowPool ==
    { <<<<"D","y","n","a","m","i","c"," ","D","i","s","p","l","a","y"," ","C","o","u","n","t",":"," ","1","2">>>>,
      <<<<"k",":"," ","1",".","5">>>>,
      <<<<"a",":"," ","b",":"," ","3">>>>,
      <<<<"k"," ",":"," ","7">>, <<"9">>>>,
      <<<<"k","2",":"," ","1",".","5","x">>>>,
      <<<<"p","l","a","i","n">>, <<"x",":"," ","1">>>>,
      <<<<"t",":">>>>,
      <<<<"a",":","-","4">>>> }

ColonTables ==
    { <<r>> : r \in ColonRowPool } \cup { <<r, q>> : r \in ColonRowPool, q \in ColonRowPool }

InitColon ==
    /\ InitNoParser
    /\ pc = "classify"
    /\ label = K_DC_count
    /\ table_data \in ColonTables
    /\ soc_target = Target(label, <<>>, FALSE, <<>>)
    /\ parsed_data = Returned(<<>>)

SpecColon == InitColon /\ [][NextTable]_vars

\* the position of the last ':' of a field that has one
LastColon(field) == MaxOf({ p \in 1..Len(field) : field[p] = ":" })

KeyAtLastColon(field) == Strip(SubSeq(field, 1, LastColon(field) - 1))

ValueAtLastColon(field) == Strip(SubSeq(field, LastColon(field) + 1, Len(field)))

\* the value as an integer or a float when it is written as one, else the text
NumericOrText(value) ==
    IF IsIntLit(value) THEN IntV(IntOf(value))
    ELSE IF IsFloatLit(value) /\ HasChar(".", value) THEN FloatOf(value)
    ELSE StrV(value)

\* C13 - Colon-scalar extraction: every row whose first field contains ':'
\* gives the key before the last ':' of the field, trimmed, and under it the
\* text after that ':', trimmed, as an integer or float when it is numeric
\* and as the string otherwise (of rows with one key the last one counts).
C13_ColonScalar ==
    (Classified /\ label = K_DC_count) =>
        /\ ~parsed_data.raised
        /\ \A i \in 1..Len(table_data) :
              HasChar(":", table_data[i][1]) =>
                  /\ HasKey(parsed_data.data, KeyAtLastColon(table_data[i][1]))
                  /\ (\A j \in (i + 1)..Len(table_data) :
                          HasChar(":", table_data[j][1]) =>
                              KeyAtLastColon(table_data[j][1]) # KeyAtLastColon(table_data[i][1]))
                      => Get(parsed_data.data, KeyAtLastColon(table_data[i][1])) =
                             NumericOrText(ValueAtLastColon(table_data[i][1]))

----------------------------------------------------------------------------
(* ParserRegistry and WorkloadParser.parse_file, core/parser.py:52-203     *)

MaxCalls == 3    \* calls made on a registry after its construction

\* a parser class: whether it inherits from BaseParser, and what its parse()
\* returns
ParserClass(cls, is_parser, produces) ==
    [cls |-> cls, is_parser |-> is_parser, produces |-> produces]

\* MockParser of test_core.py: data_type, file_name, row_count
MockParser ==
    ParserClass("MockParser", TRUE,
                << [k |-> "data_type", v |-> StrV(<<"m","o","c","k">>)],
                   [k |-> "file_name", v |-> StrV(<<"t","e","s","t","_">>)],
                   [k |-> "row_count", v |-> IntV(10)] >>)

\* a second parser class, and a class that is no parser
OtherParser ==
    ParserClass("OtherParser", TRUE,
                << [k |-> "data_type", v |-> StrV(<<"o","t","h","e","r">>)] >>)

NotAParser == ParserClass("NotAParser", FALSE, <<>>)

\* a parser class of the package, by the data_type its parse() reports
PackageParser(cls) ==
    ParserClass(cls, TRUE, << [k |-> "data_type", v |-> StrV(<<cls>>)] >>)

\* the names and classes _register_default_parsers registers, in its order
DefaultParsers ==
    << [k |-> "power",        v |-> PackageParser("PowerParser")],
       [k |-> "power_trace",  v |-> PackageParser("PowerTraceParser")],
       [k |-> "etl",          v |-> PackageParser("ETLParser")],
       [k |-> "model_output", v |-> PackageParser("ModelOutputParser")],
       [k |-> "socwatch",     v |-> PackageParser("SocwatchParser")],
       [k |-> "pcie",         v |-> PackageParser("PCIeParser")],
       [k |-> "hobl",         v |-> PackageParser("HOBLParser")],
       [k |-> "pacs",         v |-> PackageParser("PacsParser")],
       [k |-> "intel_etl",    v |-> PackageParser("IntelEtlParser")],
       [k |-> "log_file",     v |-> PackageParser("LogFileParser")],
       [k |-> "generic_csv",  v |-> PackageParser("GenericCsvParser")] >>

\* an entry of the 'parsers' section: its 'enabled' flag (True when the key
\* is missing) and whether the entry is a non-empty dict
ParserEntry(enabled, nonempty) == [enabled |-> enabled, nonempty |-> nonempty]

\* the 'parsers' section of _load_defaults
BasicDefaults ==
    << [k |-> "power",        v |-> ParserEntry(TRUE, TRUE)],
       [k |-> "power_trace",  v |-> ParserEntry(TRUE, TRUE)],
       [k |-> "etl",          v |-> ParserEntry(TRUE, TRUE)],
       [k |-> "model_output", v |-> ParserEntry(TRUE, TRUE)],
       [k |-> "socwatch",     v |-> ParserEntry(TRUE, TRUE)],
       [k |-> "pcie",         v |-> ParserEntry(TRUE, TRUE)],
       [k |-> "hobl",         v |-> ParserEntry(FALSE, TRUE)] >>

\* ParserConfig.get_enabled_parsers (processing.hobl_enabled is False)
get_enabled_parsers(cfg) == Keys(SelectSeq(cfg, LAMBDA e : e.v.enabled))

\* ParserConfig.get_parser_config is a non-empty dict
HasParserConfig(cfg, parser_name) == HasKey(cfg, parser_name) /\ Get(cfg, parser_name).nonempty

\* one call and how it ended
Call(op, name, cls, raised, error, value) ==
    [op |-> op, name |-> name, cls |-> cls, raised |-> raised, error |-> error, value |-> value]

\* ParserRegistry.register keeping the class a name already has
register_keep_first(parsers, name, parser_class) ==
    IF HasKey(parsers, name) THEN parsers ELSE Put(parsers, name, parser_class)

\* ParserRegistry.register on a BaseParser subclass: self._parsers[name] = parser_class
register(parsers, name, parser_class) == Put(parsers, name, parser_class)

\* the names get_available_parsers returns
get_available_parsers(parsers) == Keys(parsers)

\* the enabled names that find_compatible_parser would return, in its order
CompatibleNames(parsers, cfg, file_path) ==
    SelectSeq(get_enabled_parsers(cfg),
              LAMBDA parser_name :
                  /\ HasKey(parsers, parser_name)
                  /\ HasParserConfig(cfg, parser_name)
                  /\ Get(parsers, parser_name).cls \in file_path.accepted_by)

\* find_compatible_parser walking the registry, in the order of the register
\* calls, instead of the enabled list
find_compatible_parser_registered(parsers, cfg, file_path) ==
    LET names == SelectSeq(Keys(parsers),
                           LAMBDA parser_name :
                               \E n \in 1..Len(CompatibleNames(parsers, cfg, file_path)) :
                                   CompatibleNames(parsers, cfg, file_path)[n] = parser_name)
    IN  IF Len(names) = 0 THEN "None" ELSE names[1]

\* ParserRegistry.find_compatible_parser: the first of them, or None
find_compatible_parser(parsers, cfg, file_path) ==
    IF Len(CompatibleNames(parsers, cfg, file_path)) = 0 THEN "None"
    ELSE CompatibleNames(parsers, cfg, file_path)[1]

\* the '_metadata' entry parse_file adds
Metadata(parser_name, file_path) ==
    [t |-> "metadata", s |-> <<parser_name>>, n |-> 0, file_path |-> file_path.name]

\* WorkloadParser.parse_file
parse_file(parsers, cfg, file_path) ==
    LET parser_name == find_compatible_parser(parsers, cfg, file_path)
        produced    == Get(parsers, parser_name).produces
    IN  IF ~file_path.exists \/ ~file_path.is_file
        THEN Call("parse_file", "None", "None", TRUE, "ParsingError", <<>>)
        ELSE IF parser_name # "None" /\ file_path.fault = "can_parse"
        THEN \* find_compatible_parser is called outside the try block
             Call("parse_file", parser_name, Get(parsers, parser_name).cls,
                  TRUE, "RuntimeError", <<>>)
        ELSE IF parser_name = "None"
        THEN Call("parse_file", "None", "None", TRUE, "ParsingError", <<>>)
        ELSE IF file_path.fault \in {"parse", "validate"} \/ ~(Len(produced) > 0)
        THEN Call("parse_file", parser_name, Get(parsers, parser_name).cls,
                  TRUE, "ParsingError", <<>>)
        ELSE Call("parse_file", parser_name, Get(parsers, parser_name).cls,
                  FALSE, "", Put(produced, "_metadata", Metadata(parser_name, file_path)))

\* the calls made after the construction
OwnCalls == IF pc = "workload" THEN Len(calls) - Len(DefaultParsers) ELSE Len(calls)

RegistryNames == {"mock", "socwatch"}

RegistryClasses == {MockParser, OtherParser, NotAParser}

LookupNames == {"mock", "nonexistent"}

\* configurations: the defaults, the defaults and an entry for the custom
\* name, an empty entry for it, a disabled entry for it
ConfigPool ==
    { BasicDefaults,
      Put(BasicDefaults, "mock", ParserEntry(TRUE, TRUE)),
      Put(BasicDefaults, "mock", ParserEntry(TRUE, FALSE)),
      Put(BasicDefaults, "mock", ParserEntry(FALSE, TRUE)) }

\* files: missing, a directory, and regular files by the parser classes
\* whose can_parse accepts them
PathPool ==
    { [NoPath EXCEPT !.name = <<"g","o","n","e">>],
      [NoPath EXCEPT !.name = <<"d","i","r">>, !.exists = TRUE] }
    \cup { [NoPath EXCEPT !.name = <<"t","e","s","t","_">>, !.exists = TRUE, !.is_file = TRUE,
                          !.accepted_by = a] :
           a \in { {}, {"MockParser"}, {"OtherParser"}, {"MockParser", "SocwatchParser"} } }

InitRegistry ==
    /\ InitNoSocwatch
    /\ InitNoTable
    /\ pc = "registry"
    /\ registry = <<>>
    /\ calls = <<>>
    /\ config \in ConfigPool
    /\ path \in PathPool

\* WorkloadParser.__init__: the registry gets the parsers of the package
RegisterDefaultParsers ==
    /\ pc = "registry"
    /\ calls = <<>>
    /\ registry' = DefaultParsers
    /\ calls' = [i \in 1..Len(DefaultParsers) |->
                    Call("register", DefaultParsers[i].k, DefaultParsers[i].v.cls, FALSE, "", <<>>)]
    /\ pc' = "workload"
    /\ UNCHANGED <<catalog, file, config, path>>
    /\ UNCHANGED parseVars
    /\ UNCHANGED tableVars

\* ParserRegistry.register / WorkloadParser.register_parser
Register ==
    /\ pc \in {"registry", "workload"}
    /\ OwnCalls < MaxCalls
    /\ \E name \in RegistryNames, parser_class \in RegistryClasses :
          IF ~parser_class.is_parser
          THEN /\ calls' = Append(calls, Call("register", name, parser_class.cls,
                                              TRUE, "ValueError", <<>>))
               /\ UNCHANGED registry
          ELSE /\ registry' = register(registry, name, parser_class)
               /\ calls' = Append(calls, Call("register", name, parser_class.cls, FALSE, "", <<>>))
    /\ UNCHANGED <<catalog, file, pc, config, path>>
    /\ UNCHANGED parseVars
    /\ UNCHANGED tableVars

\* ParserRegistry.get_parser
GetParser ==
    /\ pc \in {"registry", "workload"}
    /\ OwnCalls < MaxCalls
    /\ \E name \in LookupNames :
          calls' = Append(calls,
                          IF ~HasKey(registry, name)
                          THEN Call("get_parser", name, "None", TRUE, "ParserNotFoundError", <<>>)
                          ELSE Call("get_parser", name, Get(registry, name).cls, FALSE, "", <<>>))
    /\ UNCHANGED <<catalog, file, pc, registry, config, path>>
    /\ UNCHANGED parseVars
    /\ UNCHANGED tableVars

\* ParserRegistry.get_available_parsers
GetAvailableParsers ==
    /\ pc \in {"registry", "workload"}
    /\ OwnCalls < MaxCalls
    /\ calls' = Append(calls, Call("get_available_parsers", "None", "None", FALSE, "",
                                   get_available_parsers(registry)))
    /\ UNCHANGED <<catalog, file, pc, registry, config, path>>
    /\ UNCHANGED parseVars
    /\ UNCHANGED tableVars

\* WorkloadParser.parse_file on the file
ParseFile ==
    /\ pc = "workload"
    /\ OwnCalls < MaxCalls
    /\ calls' = Append(calls, parse_file(registry, config, path))
    /\ UNCHANGED <<catalog, file, pc, registry, config, path>>
    /\ UNCHANGED parseVars
    /\ UNCHANGED tableVars

NextRegistry ==
    \/ RegisterDefaultParsers
    \/ Register
    \/ GetParser
    \/ GetAvailableParsers
    \/ ParseFile

SpecRegistry == InitRegistry /\ [][NextRegistry]_vars

\* the register calls before call i that returned, under the name
RegisteredBefore(i, name) ==
    { j \in 1..(i - 1) : calls[j].op = "register" /\ ~calls[j].raised /\ calls[j].name = name }

\* C14 - Registry lookup: get_available_parsers holds every name a register
\* call has stored, get_parser of such a name returns the class of the last
\* register call under it, and get_parser of a name never registered raises
\* ParserNotFoundError and leaves the registry as it was.
C14_RegistryLookup ==
    /\ \A i \in 1..Len(calls) :
          /\ calls[i].op = "get_available_parsers" =>
                \A j \in 1..(i - 1) :
                    (calls[j].op = "register" /\ ~calls[j].raised) =>
                        \E n \in 1..Len(calls[i].value) : calls[i].value[n] = calls[j].name
          /\ calls[i].op = "get_parser" =>
                IF RegisteredBefore(i, calls[i].name) # {}
                THEN /\ ~calls[i].raised
                     /\ calls[i].cls = calls[MaxOf(RegisteredBefore(i, calls[i].name))].cls
                ELSE /\ calls[i].raised
                     /\ calls[i].error = "ParserNotFoundError"
    /\ \A name \in RegistryNames \cup LookupNames :
          HasKey(registry, name) <=> RegisteredBefore(Len(calls) + 1, name) # {}

\* a name registered twice with different classes, then looked up
C14_Witness ==
    /\ Len(calls) = 3
    /\ calls[1].op = "register" /\ calls[2].op = "register" /\ calls[3].op = "get_parser"
    /\ calls[1].name = "mock" /\ calls[2].name = "mock" /\ calls[3].name = "mock"
    /\ calls[1].cls = "MockParser" /\ calls[2].cls = "OtherParser"
    /\ ~calls[3].raised /\ calls[3].cls = "OtherParser"

\* the class a name holds after the calls before call i
ClassBefore(i, name) == calls[MaxOf(RegisteredBefore(i, name))].cls

\* C15 - Custom parser is used: once register_parser(name, cls) has stored a
\* class, parse_file on an existing regular file that this class, and no
\* other, can parse returns what the parse() of the class produces, with the
\* same data_type, and a '_metadata' entry added.
C15_CustomParserUsed ==
    \A i \in 1..Len(calls) : \A name \in RegistryNames : \A c \in RegistryClasses :
        ( /\ calls[i].op = "parse_file"
          /\ \E j \in RegisteredBefore(i, name) : j > Len(DefaultParsers)
          /\ ClassBefore(i, name) = c.cls
          /\ path.exists /\ path.is_file
          /\ path.accepted_by = {c.cls} )
        => /\ ~calls[i].raised
           /\ HasKey(calls[i].value, "_metadata")
           /\ \A n \in 1..Len(c.produces) :
                 /\ HasKey(calls[i].value, c.produces[n].k)
                 /\ Get(calls[i].value, c.produces[n].k) = c.produces[n].v

----------------------------------------------------------------------------
(* PCIeParser, socwatch_parser.py:854-968                                  *)

MaxFolder == 4    \* '.etl' entries the folder of the file lists

\* pathlib's Path.suffix of a file name
PathSuffix(name) ==
    LET dots == { p \in 1..Len(name) : name[p] = "." }
    IN  IF dots = {} \/ MaxOf(dots) = 1 \/ MaxOf(dots) = Len(name) THEN <<>>
        ELSE SubSeq(name, MaxOf(dots), Len(name))

\* s.replace(sub, '')
RECURSIVE RemoveAll(_, _)
RemoveAll(s, sub) ==
    IF Len(s) < Len(sub) \/ Len(s) = 0 THEN s
    ELSE IF StartsWith(s, sub) THEN RemoveAll(SubSeq(s, Len(sub) + 1, Len(s)), sub)
    ELSE <<s[1]>> \o RemoveAll(Tail(s), sub)

CsvSuffix == <<".","c","s","v">>
EtlSuffix == <<".","e","t","l">>
WakeupAnalysis == <<"w","a","k","e","u","p","a","n","a","l","y","s","i","s">>
OsSessionSuffix == <<"_","o","s","S","e","s","s","i","o","n",".","e","t","l">>

required_etl_files ==
    << <<"_","e","x","t","r","a","S","e","s","s","i","o","n",".","e","t","l">>,
       <<"_","h","w","S","e","s","s","i","o","n",".","e","t","l">>,
       <<"_","i","n","f","o","S","e","s","s","i","o","n",".","e","t","l">> >>

\* the required suffixes an ETL name ends with, in the order of the list
RequiredOf(etl_name) == SelectSeq(required_etl_files, LAMBDA r : EndsWith(etl_name, r))

NoPrefix == <<"N","o","n","e">>

\* the loop over parent_folder.glob('*.etl'): the required suffixes found,
\* the workload prefix of the last ETL file that has one, has_os_session
RECURSIVE etl_loop(_, _, _)
etl_loop(folder, i, acc) ==
    IF i > Len(folder) THEN acc
    ELSE LET etl_name == folder[i]
             os       == acc.has_os_session \/ EndsWith(etl_name, OsSessionSuffix)
         IN  IF ~EndsWith(etl_name, EtlSuffix) THEN etl_loop(folder, i + 1, acc)
             ELSE IF Len(RequiredOf(etl_name)) = 0
             THEN etl_loop(folder, i + 1, [acc EXCEPT !.has_os_session = os])
             ELSE etl_loop(folder, i + 1,
                      [etl_files_found |-> acc.etl_files_found \cup {RequiredOf(etl_name)[1]},
                       workload_prefix |-> RemoveAll(etl_name, RequiredOf(etl_name)[1]),
                       has_os_session  |-> os])

\* PCIeParser.can_parse
can_parse(file_path) ==
    LET filename == file_path.name
        found    == etl_loop(file_path.folder, 1,
                             [etl_files_found |-> {}, workload_prefix |-> NoPrefix,
                              has_os_session |-> FALSE])
    IN  IF ToLower(PathSuffix(filename)) # CsvSuffix THEN FALSE
        ELSE IF Contains(WakeupAnalysis, ToLower(filename)) THEN FALSE
        ELSE /\ Cardinality(found.etl_files_found) >= 3
             /\ ~found.has_os_session
             /\ found.workload_prefix # NoPrefix
             /\ Len(found.workload_prefix) > 0
             /\ StartsWith(filename, found.workload_prefix)
             /\ EndsWith(filename, CsvSuffix)

PcieWord == <<"p","c","i","e">>
PciExpressWords == <<"p","c","i"," ","e","x","p","r","e","s","s">>

PcieDetected == <<"p","c","i","e","_","d","e","t","e","c","t","e","d">>

\* PCIeParser._extract_pcie_metrics on the lines of the content
_extract_pcie_metrics(content) ==
    IF \E n \in 1..Len(content) :
           \/ Contains(PcieWord, ToLower(Strip(content[n])))
           \/ Contains(PciExpressWords, ToLower(Strip(content[n])))
    THEN << [k |-> PcieDetected, v |-> BoolV(TRUE)] >>
    ELSE << [k |-> PcieDetected, v |-> BoolV(FALSE)] >>

\* PCIeParser.parse: the result, or ParsingError when the file cannot be read
pcie_parse(file_path) ==
    IF ~file_path.exists \/ ~file_path.is_file
    THEN Call("parse", "PCIeParser", "PCIeParser", TRUE, "ParsingError", <<>>)
    ELSE Call("parse", "PCIeParser", "PCIeParser", FALSE, "",
              [data_type |-> "pcie_socwatch", parser |-> "PCIeParser",
               pcie_data |-> _extract_pcie_metrics(file_path.content),
               content_size |-> Len(Join(file_path.content, <<"\n">>))])

\* the PCIe targets of the default configuration
PcieTarget(key, devices, lookup) == [key |-> key, devices |-> devices, lookup |-> lookup]

K_PCIe_LPM == <<"P","C","I","e","_","L","P","M">>
K_PCIe_Active == <<"P","C","I","e","_","A","c","t","i","v","e">>
K_PCIe_LTRsnoop == <<"P","C","I","e","_","L","T","R","s","n","o","o","p">>
NVM == <<"N","V","M">>

default_pcie ==
    << PcieTarget(K_PCIe_LPM, <<NVM>>,
                  <<"P","C","I","e"," ","L","P","M"," ","S","u","m","m","a","r","y"," ","-"," ","S","a","m","p","l","e","d",":"," ","A","p","p","r","o","x","i","m","a","t","e","d"," ","R","e","s","i","d","e","n","c","y"," ","(","P","e","r","c","e","n","t","a","g","e",")">>),
       PcieTarget(K_PCIe_Active, <<NVM>>,
                  <<"P","C","I","e"," ","L","i","n","k"," ","A","c","t","i","v","e"," ","S","u","m","m","a","r","y"," ","-"," ","S","a","m","p","l","e","d",":"," ","A","p","p","r","o","x","i","m","a","t","e","d"," ","R","e","s","i","d","e","n","c","y"," ","(","P","e","r","c","e","n","t","a","g","e",")">>),
       PcieTarget(K_PCIe_LTRsnoop, <<NVM>>,
                  <<"P","C","I","e"," ","L","T","R"," ","S","n","o","o","p"," ","S","u","m","m","a","r","y"," ","-"," ","S","a","m","p","l","e","d",":"," ","H","i","s","t","o","g","r","a","m">>) >>

\* folder entries: the three required kinds of one workload, its
\* _osSession.etl, and a required kind of another workload
EtlPool ==
    { <<"w","_","e","x","t","r","a","S","e","s","s","i","o","n",".","e","t","l">>,
      <<"w","_","h","w","S","e","s","s","i","o","n",".","e","t","l">>,
      <<"w","_","i","n","f","o","S","e","s","s","i","o","n",".","e","t","l">>,
      <<"w","_","o","s","S","e","s","s","i","o","n",".","e","t","l">>,
      <<"v","_","i","n","f","o","S","e","s","s","i","o","n",".","e","t","l">> }

\* the listings of a folder: distinct entries, in any order
Folders ==
    UNION { { f \in [1..n -> EtlPool] : \A a, b \in 1..n : a # b => f[a] # f[b] } :
            n \in 0..MaxFolder }

CsvNames ==
    { <<"w",".","c","s","v">>, <<"v",".","c","s","v">>, <<"w","_","W","a","k","e","u","p","A","n","a","l","y","s","i","s",".","c","s","v">>,
      <<"w",".","t","x","t">>, <<"w",".","C","S","V">> }

\* contents: the report of test_parse_pcie_lpm_data with a second device,
\* the content of test_parse_empty_pcie_data, a report without a PCIe
\* word, a report with the LTR section
PcieContents ==
    { << <<>>,
       <<"P","C","I","e"," ","L","P","M"," ","S","u","m","m","a","r","y"," ","-"," ","S","a","m","p","l","e","d",":"," ","A","p","p","r","o","x","i","m","a","t","e","d"," ","R","e","s","i","d","e","n","c","y"," ","(","P","e","r","c","e","n","t","a","g","e",")">>,
       <<"D","e","v","i","c","e",",","L","0"," ","(","%",")",",","L","0","s"," ","(","%",")">>,
       <<"N","V","M"," ","E","x","p","r","e","s","s"," ","C","o","n","t","r","o","l","l","e","r",",","9","5",".","2",",","2",".","1">>,
       <<"W","i","F","i"," ","A","d","a","p","t","e","r",",","8","0",".","0",",","1","0",".","0">>,
       <<>>,
       <<"P","C","I","e"," ","L","i","n","k"," ","A","c","t","i","v","e"," ","S","u","m","m","a","r","y"," ","-"," ","S","a","m","p","l","e","d",":"," ","A","p","p","r","o","x","i","m","a","t","e","d"," ","R","e","s","i","d","e","n","c","y"," ","(","P","e","r","c","e","n","t","a","g","e",")">>,
       <<"D","e","v","i","c","e",",","A","c","t","i","v","e"," ","(","%",")">>,
       <<"N","V","M"," ","E","x","p","r","e","s","s"," ","C","o","n","t","r","o","l","l","e","r",",","1","2",".","5">>,
       <<>> >>,
      << <<"N","o"," ","P","C","I","e"," ","d","a","t","a"," ","h","e","r","e">>,
       <<>> >>,
      << <<"C","P","U"," ","P","-","S","t","a","t","e">>,
       <<"P","0",",","1">>,
       <<>> >>,
      << <<"P","C","I","e"," ","L","T","R"," ","S","n","o","o","p"," ","S","u","m","m","a","r","y"," ","-"," ","S","a","m","p","l","e","d",":"," ","H","i","s","t","o","g","r","a","m">>,
       <<"D","e","v","i","c","e",",","<","1","u","s">>,
       <<"N","V","M"," ","E","x","p","r","e","s","s"," ","C","o","n","t","r","o","l","l","e","r",",","8","0",".","0">>,
       <<>> >> }

\* the content of test_parse_empty_pcie_data
NoPcieData ==
    << <<"N","o"," ","P","C","I","e"," ","d","a","t","a"," ","h","e","r","e">>,
       <<>> >>

InitPcie ==
    /\ InitNoSocwatch
    /\ InitNoTable
    /\ pc = "pcie"
    /\ registry = <<>>
    /\ config = <<>>
    /\ calls = <<>>
    /\ \/ \E f \in Folders, n \in CsvNames :
             path = [name |-> n, exists |-> TRUE, is_file |-> TRUE, accepted_by |-> {},
                     fault |-> "none", folder |-> f, content |-> NoPcieData]
       \/ \E c \in PcieContents, e \in BOOLEAN :
             path = [name |-> <<"w",".","c","s","v">>, exists |-> e, is_file |-> e, accepted_by |-> {},
                     fault |-> "none", folder |-> <<>>, content |-> c]

\* PCIeParser.can_parse on the file
CanParse ==
    /\ pc = "pcie"
    /\ calls = <<>>
    /\ calls' = <<Call("can_parse", "PCIeParser", "PCIeParser", FALSE, "", can_parse(path))>>
    /\ UNCHANGED <<catalog, file, pc, registry, config, path>>
    /\ UNCHANGED parseVars
    /\ UNCHANGED tableVars

\* PCIeParser.parse on the file
PcieParse ==
    /\ pc = "pcie"
    /\ Len(calls) <= 1
    /\ calls' = Append(calls, pcie_parse(path))
    /\ pc' = "parsed"
    /\ UNCHANGED <<catalog, file, registry, config, path>>
    /\ UNCHANGED parseVars
    /\ UNCHANGED tableVars

NextPcie == CanParse \/ PcieParse

SpecPcie == InitPcie /\ [][NextPcie]_vars

\* the folder lists the three required ETL files of the workload prefix p
HasSessionsOf(folder, p) ==
    \A r \in 1..Len(required_etl_files) :
        \E i \in 1..Len(folder) : folder[i] = p \o required_etl_files[r]

\* the prefixes of the required ETL files the folder lists
SessionPrefixes(folder) ==
    { RemoveAll(folder[i], RequiredOf(folder[i])[1]) :
          i \in { j \in 1..Len(folder) : Len(RequiredOf(folder[j])) > 0 } }

HasOsSession(folder) == \E i \in 1..Len(folder) : EndsWith(folder[i], OsSessionSuffix)

\* the required kinds the folder lists
KindsOf(folder) ==
    { r \in 1..Len(required_etl_files) :
          \E i \in 1..Len(folder) : EndsWith(folder[i], required_etl_files[r]) }

\* C16 - PCIe-only detection: can_parse accepts a '.csv' file without
\* 'wakeupanalysis' in its name whose folder lists the three required ETL
\* files of a workload prefix the CSV name starts with and no _osSession.etl
\* file; what it accepts is such a file, with the three kinds listed, no
\* _osSession.etl and the prefix of a listed ETL file at the start of its name.
C16_PcieOnlyDetection ==
    \A i \in 1..Len(calls) :
        calls[i].op = "can_parse" =>
            /\ ( /\ EndsWith(path.name, CsvSuffix)
                 /\ ~Contains(WakeupAnalysis, ToLower(path.name))
                 /\ ~HasOsSession(path.folder)
                 /\ \E p \in SessionPrefixes(path.folder) :
                       HasSessionsOf(path.folder, p) /\ StartsWith(path.name, p) )
               => calls[i].value
            /\ calls[i].value =>
                 /\ EndsWith(path.name, CsvSuffix)
                 /\ ~Contains(WakeupAnalysis, ToLower(path.name))
                 /\ ~HasOsSession(path.folder)
                 /\ Cardinality(KindsOf(path.folder)) = 3
                 /\ \E p \in SessionPrefixes(path.folder) : StartsWith(path.name, p)

\* the line of the content that holds the lookup text of the target, or 0
LookupLine(content, t) ==
    IF \E n \in 1..Len(content) : Contains(t.lookup, content[n])
    THEN CHOOSE n \in 1..Len(content) :
             Contains(t.lookup, content[n]) /\ \A m \in 1..(n - 1) : ~Contains(t.lookup, content[m])
    ELSE 0

\* the lines of the device rows under the header that follows line h
DeviceLines(content, h) ==
    { n \in (h + 2)..Len(content) : \A m \in (h + 2)..n : Strip(content[m]) # <<>> }

\* C17 - PCIe metric extraction: pcie_data holds, for each PCIe target whose
\* lookup line is in the document and each device row of a device of its
\* list, one entry per data column, keyed column header, '_', device, eight
\* spaces, target key, valued the cell string, and no entry for other devices.
C17_PcieMetricExtraction ==
    \A i \in 1..Len(calls) :
        (calls[i].op = "parse" /\ ~calls[i].raised) =>
            \A t \in 1..Len(default_pcie) :
                LookupLine(path.content, default_pcie[t]) > 0 =>
                    LET h      == LookupLine(path.content, default_pcie[t])
                        header == Split(Strip(path.content[h + 1]), ",")
                    IN  \A n \in DeviceLines(path.content, h) :
                            LET row == Split(Strip(path.content[n]), ",")
                            IN  \A d \in 1..Len(default_pcie[t].devices) :
                                  \A c \in 2..Len(header) :
                                    LET key == header[c] \o <<"_">> \o default_pcie[t].devices[d]
                                                  \o Separator \o default_pcie[t].key
                                    IN  IF Contains(default_pcie[t].devices[d], row[1])
                                        THEN /\ c <= Len(row)
                                             /\ HasKey(calls[i].value.pcie_data, key)
                                             /\ Get(calls[i].value.pcie_data, key) = StrV(row[c])
                                        ELSE \A j \in 1..Len(calls[i].value.pcie_data) :
                                               ~StartsWith(calls[i].value.pcie_data[j].k,
                                                           header[c] \o <<"_">> \o Split(row[1], " ")[1])

\* C18 - PCIe empty result: parse of a readable file that holds none of the
\* PCIe target sections returns a result whose pcie_data has no entry.
C18_PcieEmptyResult ==
    \A i \in 1..Len(calls) :
        ( /\ calls[i].op = "parse"
          /\ ~calls[i].raised
          /\ \A t \in 1..Len(default_pcie) : LookupLine(path.content, default_pcie[t]) = 0 )
        => Len(calls[i].value.pcie_data) = 0

----------------------------------------------------------------------------
(* The while loop of _extract_table_data on the lines under a header,      *)
(* socwatch_parser.py:467-488                                              *)

MaxLines == 2    \* lines under the header

\* lines: a row, dash lines, lines that begin with dashes and carry text,
\* a line of delimiters, quoted fields, an empty quoted field, blank lines
LinePool ==
    { <<"a",",","1">>,
      <<"-","-","-">>,
      <<" ","-"," ","-","-"," ">>,
      <<"-","-","-"," ","x",",","1">>,
      <<"-","x",",","2">>,
      <<",",",">>,
      <<" ","\"","q","\""," ",","," ",",","b"," ">>,
      <<"\"","\"",",","c">>,
      <<>>,
      <<" "," ">>,
      <<"\"","\"","z","\"","\"",",","3">> }

HeaderLine == <<"C","o","r","e"," ","C","-","S","t","a","t","e">>

InitTokens ==
    /\ catalog = <<>>
    /\ file = <<>>
    /\ pc = "tokenize"
    /\ \E n \in 1..MaxLines : \E body \in [1..n -> LinePool] : lines = <<HeaderLine>> \o body
    /\ target_idx = 0
    /\ table_start_idx = 0
    /\ raw_table_lines = <<>>
    /\ socwatch_tables = <<>>
    /\ table_idx = 0
    /\ target_metrics = <<>>
    /\ core_type_cache = <<>>
    /\ warned_targets = {}
    /\ result = NoResult
    /\ outcome = "none"
    /\ parse_count = 0
    /\ history = {}
    /\ InitNoTable
    /\ InitNoFramework

\* the while loop runs from the line after the header
Tokenize ==
    /\ pc = "tokenize"
    /\ raw_table_lines' = RawTableLines(lines, table_start_idx + 1, <<>>)
    /\ pc' = "tokenized"
    /\ UNCHANGED <<catalog, file, lines, target_idx, table_start_idx, socwatch_tables, table_idx,
                   target_metrics, core_type_cache, warned_targets, result, outcome,
                   parse_count, history>>
    /\ UNCHANGED tableVars
    /\ UNCHANGED frameworkVars

NextTokens == Tokenize

SpecTokens == InitTokens /\ [][NextTokens]_vars

\* the trimmed line is made of '-' characters and spaces only
DashesAndSpaces(line) == \A p \in 1..Len(Strip(line)) : Strip(line)[p] \in {"-", " "}

\* the pieces of the line that are not empty once trimmed of whitespace
Pieces(line) == SelectSeq(Split(Strip(line), ","), LAMBDA piece : Strip(piece) # <<>>)

\* the lines of the section under the header, blank line excluded
SectionLines == SubSeq(lines, table_start_idx + 2, SectionEnd(table_start_idx) - 1)

\* the lines of the section that are to give a row: those not made of dashes
\* and spaces only, and with a piece left
RowLines == SelectSeq(SectionLines, LAMBDA line : ~DashesAndSpaces(line) /\ Len(Pieces(line)) > 0)

\* C21 - Separator rule: a non-blank line of a section gives no row if and
\* only if, once trimmed, it is made of '-' characters and spaces only (a
\* line whose pieces are all empty aside); every other line, one that begins
\* with dashes and carries other text included, gives a row.
C21_SeparatorRule ==
    pc = "tokenized" =>
        /\ Len(raw_table_lines) = Len(RowLines)
        /\ \A n \in 1..Len(RowLines) : Len(raw_table_lines[n]) = Len(Pieces(RowLines[n]))

\* C22 - Tokenized rows hold no empty field: every field of every row is a
\* non-empty string, and no row is empty.
C22_NoEmptyField ==
    pc = "tokenized" =>
        \A n \in 1..Len(raw_table_lines) :
            /\ Len(raw_table_lines[n]) > 0
            /\ \A f \in 1..Len(raw_table_lines[n]) : Len(raw_table_lines[n][f]) > 0

----------------------------------------------------------------------------
(* Buckets a row matches *)

\* data row i matches the bucket spec b: its integer key lies in the range
\* of b, or its key is the label b
RowMatches(i, b) ==
    IF HasChar("-", b) THEN IsIntRange(b) /\ i \in IntRowsInRange(b)
    ELSE i \in RowsWithKey(b)

\* the position of the first spec of the declaration that row i matches
FirstMatch(i) ==
    CHOOSE j \in 1..Len(soc_target.buckets) :
        /\ RowMatches(i, soc_target.buckets[j])
        /\ \A k \in 1..(j - 1) : ~RowMatches(i, soc_target.buckets[k])

\* the data rows whose first matching spec is the one at position j
RowsFirstMatching(j) ==
    { i \in DataRows : RowMatches(i, soc_target.buckets[j]) /\ FirstMatch(i) = j }

\* C23 - Bucket first-match: each data row changes the first bucket, in
\* declaration order, that it matches and no other: a range bucket ends with
\* the sum of the rows that match it first, an exact-label bucket with the
\* value of the last such row, and a bucket no row matches first keeps 0.
C23_BucketFirstMatch ==
    Bucketed =>
        \A j \in 1..Len(soc_target.buckets) :
            LET b == soc_target.buckets[j]
            IN  IF HasChar("-", b) \/ RowsFirstMatching(j) = {}
                THEN BucketMilli(b) = SumOfRows(RowsFirstMatching(j))
                ELSE BucketMilli(b) = MilliOf(table_data[MaxOf(RowsFirstMatching(j))][2])

----------------------------------------------------------------------------
(* Shape of the bucketed mapping *)

FrequencyBucketLabel == <<"F","r","e","q","u","e","n","c","y"," ","B","u","c","k","e","t"," ","(","M","H","z",")">>

\* the declared bucket labels, in declaration order, without the label k
RECURSIVE BucketsWithout(_, _)
BucketsWithout(buckets, k) ==
    IF Len(buckets) = 0 THEN <<>>
    ELSE (IF buckets[1] = k THEN <<>> ELSE <<buckets[1]>>) \o BucketsWithout(Tail(buckets), k)

\* the rows long enough to hold a key and a value
LongRows == { i \in 1..Len(table_data) : Len(table_data[i]) >= 2 }

\* the key of the leading pair: that of the first long row, else the generic
\* label
LeadingKey == IF LongRows = {} THEN HeaderText ELSE table_data[MinOf(LongRows)][1]

\* the value the last row with the leading key holds
LeadingValue ==
    IF LongRows = {} THEN ValueText
    ELSE table_data[MaxOf({ i \in LongRows : table_data[i][1] = LeadingKey })][2]

\* a data row changed the bucket b
BucketMatched(b) ==
    \E i \in DataRows :
        \/ ~HasChar("-", b) /\ table_data[i][1] = b
        \/ IsIntRange(b) /\ i \in IntRowsInRange(b)

----------------------------------------------------------------------------
(* A table of a key that is not statically recognized, without buckets     *)

\* the descriptor has no 'buckets' entry, or has an empty one
InitDefault ==
    /\ InitNoParser
    /\ pc = "classify"
    /\ label = K_NPU_Pstate
    /\ table_data \in Tables
    /\ \E has \in BOOLEAN : soc_target = Target(label, <<>>, has, <<>>)
    /\ parsed_data = Returned(<<>>)

SpecDefault == InitDefault /\ [][NextTable]_vars

\* C25 - Default dispatch: for a table key that is not statically recognized
\* and a descriptor whose buckets entry is absent or empty, the result is
\* that of the Default two-column extractor with key index 0 and value index
\* 1 over the same rows.
C25_DefaultDispatch ==
    (Classified /\ label = K_NPU_Pstate /\ Len(soc_target.buckets) = 0) =>
        parsed_data = default_residency_table(table_data, 0, 1)

----------------------------------------------------------------------------
(* Tables of the self-describing shapes through the Aggregator             *)

\* the keys of the bandwidth, temperature, equals-list, ranked-list and
\* colon-scalar shapes
SelfDescribingKeys == {K_DDR_BW, K_CPU_temp, K_CPU_model, K_OS_wakeups, K_DC_count}

InitShape ==
    /\ InitNoParser
    /\ pc = "classify"
    /\ parsed_data = Returned(<<>>)
    /\ \/ /\ label \in SelfDescribingKeys
          /\ table_data \in Tables
          /\ soc_target = Target(label, <<>>, FALSE, <<>>)
       \/ /\ label = K_NPU_Pstate
          /\ table_data \in Tables \cup {ExampleTable}
          /\ soc_target = Target(label, <<>>, TRUE, ExampleBuckets)

SpecShape == InitShape /\ [][NextFlatten]_vars

\* the composite keys of the data mapping, in its order
DataKeys(data, table_key) == [n \in 1..Len(data) |-> CompositeKey(data[n].k, table_key)]

\* C26 - Self-describing shapes get no synthesized header: for a table of the
\* bandwidth, temperature, equals-list, ranked-list, colon-scalar or
\* bucketed-frequency shape the ResultMapping holds the data pairs of the
\* table and nothing else, as many entries as the data mapping has.
C26_NoSynthesizedHeader ==
    (pc = "flattened" /\ (label \in SelfDescribingKeys \/ soc_target.hasBuckets)) =>
        /\ Len(target_metrics) = Len(parsed_data.data)
        /\ Keys(target_metrics) = DataKeys(parsed_data.data, label)

----------------------------------------------------------------------------
(* Placement of the synthesized header pair *)

\* the composite key of the header pair of a table
HeaderKey(table_key) == CompositeKey(get_table_header_text(table_key), table_key)

\* the position of a key in the ResultMapping
PositionOf(k) == IndexOf(target_metrics, k)

\* C27 - Header placement: a table judged not self-describing has one header
\* pair, keyed by the header text of its table key, the separator and the
\* table key; it comes after the pairs of the earlier tables and before the
\* data pairs of its own table, and is an entry of its own next to all the
\* data pairs of the table.
C27_HeaderPlacement ==
    Parsed =>
        \A t \in 1..Len(socwatch_tables) :
            LET table == socwatch_tables[t]
                owned == { n \in 1..Len(target_metrics) :
                               EndsWith(target_metrics[n].k, Separator \o table.table_key) }
            IN  ~is_specialized_table_format(table.data, table.table_key) =>
                    /\ HasKey(target_metrics, HeaderKey(table.table_key))
                    /\ \A n \in 1..Len(table.data) :
                          /\ HasKey(target_metrics, CompositeKey(table.data[n].k, table.table_key))
                          /\ PositionOf(HeaderKey(table.table_key))
                                < PositionOf(CompositeKey(table.data[n].k, table.table_key))
                    /\ \A u \in 1..(t - 1) : \A n \in 1..Len(socwatch_tables[u].data) :
                          PositionOf(CompositeKey(socwatch_tables[u].data[n].k,
                                                  socwatch_tables[u].table_key))
                             < PositionOf(HeaderKey(table.table_key))
                    /\ Cardinality(owned) = Len(table.data) + 1

----------------------------------------------------------------------------
(* WorkloadParser.parse_directory, core/parser.py:205-248                  *)

MaxEntries == 2    \* entries the directory lists

\* the loop of parse_directory over all_files: a result is appended, a
\* ParsingError or any other Exception is logged and the loop goes on
RECURSIVE directory_loop(_, _, _, _, _)
directory_loop(parsers, cfg, all_files, i, results) ==
    IF i > Len(all_files) THEN results
    ELSE LET parsed == parse_file(parsers, cfg, all_files[i])
         IN  directory_loop(parsers, cfg, all_files, i + 1,
                            IF parsed.raised THEN results
                            ELSE Append(results, parsed.value))

\* WorkloadParser.parse_directory
parse_directory(parsers, cfg, dir_path) ==
    IF ~dir_path.exists \/ dir_path.is_file
    THEN Call("parse_directory", "None", "None", TRUE, "ParsingError", <<>>)
    ELSE Call("parse_directory", "None", "None", FALSE, "",
              directory_loop(parsers, cfg,
                             SelectSeq(dir_path.folder, LAMBDA f : f.is_file), 1, <<>>))

\* an entry of a directory
Entry(name, is_file, accepted_by, fault) ==
    [NoPath EXCEPT !.name = name, !.exists = TRUE, !.is_file = is_file,
                   !.accepted_by = accepted_by, !.fault = fault]

\* entries: a file of the custom parser, a file of no parser, files on which
\* the can_parse, the parse or the validate_data of the custom parser fails,
\* a file of the PCIe parser, a subdirectory
EntryPool ==
    { Entry(<<"a">>, TRUE, {"MockParser"}, "none"),
      Entry(<<"b">>, TRUE, {}, "none"),
      Entry(<<"c">>, TRUE, {"MockParser"}, "can_parse"),
      Entry(<<"d">>, TRUE, {"MockParser"}, "parse"),
      Entry(<<"e">>, TRUE, {"MockParser"}, "validate"),
      Entry(<<"f">>, TRUE, {"PCIeParser"}, "none"),
      Entry(<<"s">>, FALSE, {}, "none") }

\* the listings of a directory: distinct entries, in any order
Listings ==
    UNION { { f \in [1..n -> EntryPool] : \A a, b \in 1..n : a # b => f[a] # f[b] } :
            n \in 0..MaxEntries }

\* a WorkloadParser after its construction and register_parser('mock',
\* MockParser), on a missing path, a file or a directory
InitDirectory ==
    /\ InitNoSocwatch
    /\ InitNoTable
    /\ pc = "workload"
    /\ registry = register(DefaultParsers, "mock", MockParser)
    /\ calls = [i \in 1..Len(DefaultParsers) |->
                   Call("register", DefaultParsers[i].k, DefaultParsers[i].v.cls, FALSE, "", <<>>)]
                \o << Call("register", "mock", "MockParser", FALSE, "", <<>>) >>
    /\ config \in { BasicDefaults, Put(BasicDefaults, "mock", ParserEntry(TRUE, TRUE)) }
    /\ \/ path = [NoPath EXCEPT !.name = <<"g","o","n","e">>]
       \/ path \in EntryPool
       \/ \E l \in Listings : path = [NoPath EXCEPT !.name = <<"d","i","r">>, !.exists = TRUE,
                                                   !.folder = l]

\* WorkloadParser.parse_directory on the path
ParseDirectory ==
    /\ pc = "workload"
    /\ OwnCalls < MaxCalls
    /\ calls' = Append(calls, parse_directory(registry, config, path))
    /\ UNCHANGED <<catalog, file, pc, registry, config, path>>
    /\ UNCHANGED parseVars
    /\ UNCHANGED tableVars

NextDirectory == ParseFile \/ ParseDirectory

SpecDirectory == InitDirectory /\ [][NextDirectory]_vars

\* the files of the directory that parse_file parses, in traversal order
ParsedFiles ==
    SelectSeq(path.folder, LAMBDA f : f.is_file /\ ~parse_file(registry, config, f).raised)

\* C28 - Failure containment: parse_file reports every failure (missing
\* path, path that is no file, no compatible parser, exception inside the
\* parser, failed validation) as a ParsingError and returns no partial
\* result; parse_directory propagates no failure of a file, goes on with the
\* remaining files and returns the results of the files that parsed, in
\* traversal order.
C28_FailureContainment ==
    \A i \in 1..Len(calls) :
        /\ calls[i].op = "parse_file" =>
              /\ calls[i].raised => calls[i].error = "ParsingError"
              /\ ( \/ ~path.exists
                   \/ ~path.is_file
                   \/ path.fault # "none"
                   \/ find_compatible_parser(registry, config, path) = "None" )
                 => calls[i].raised
              /\ ~calls[i].raised =>
                    /\ HasKey(calls[i].value, "_metadata")
                    /\ \A n \in 1..Len(Get(registry, calls[i].name).produces) :
                          HasKey(calls[i].value, Get(registry, calls[i].name).produces[n].k)
        /\ (calls[i].op = "parse_directory" /\ path.exists /\ ~path.is_file) =>
              /\ ~calls[i].raised
              /\ Len(calls[i].value) = Len(ParsedFiles)
              /\ \A n \in 1..Len(ParsedFiles) :
                    /\ Get(calls[i].value[n], "_metadata").file_path = ParsedFiles[n].name
                    /\ calls[i].value[n] = parse_file(registry, config, ParsedFiles[n]).value

----------------------------------------------------------------------------
(* The parser find_compatible_parser selects *)

\* an entry of the 'parsers' section with a 'priority' value
Prioritized(enabled, nonempty, priority) ==
    [enabled |-> enabled, nonempty |-> nonempty, priority |-> priority]

\* configurations: no entry for the custom name; an entry for it after the
\* entries of the defaults, with the smallest priority value; an entry for it
\* before them, with the largest; a disabled entry and an empty entry for it
\* before them
SelectConfigs ==
    { BasicDefaults,
      BasicDefaults \o << [k |-> "mock", v |-> Prioritized(TRUE, TRUE, 1)] >>,
      << [k |-> "mock", v |-> Prioritized(TRUE, TRUE, 100)] >> \o BasicDefaults,
      << [k |-> "mock", v |-> Prioritized(FALSE, TRUE, 1)] >> \o BasicDefaults,
      << [k |-> "mock", v |-> Prioritized(TRUE, FALSE, 1)] >> \o BasicDefaults }

InitSelect ==
    /\ InitNoSocwatch
    /\ InitNoTable
    /\ pc = "registry"
    /\ registry = <<>>
    /\ calls = <<>>
    /\ config \in SelectConfigs
    /\ path \in PathPool

SpecSelect == InitSelect /\ [][NextRegistry]_vars

\* at call i the name is enabled, registered, configured, and the can_parse
\* of its class accepts the file
Eligible(i, name) ==
    /\ HasKey(config, name)
    /\ Get(config, name).enabled
    /\ Get(config, name).nonempty
    /\ RegisteredBefore(i, name) # {}
    /\ ClassBefore(i, name) \in path.accepted_by

\* the places of the enabled list whose name is eligible at call i
EligiblePlaces(i) ==
    { n \in 1..Len(get_enabled_parsers(config)) : Eligible(i, get_enabled_parsers(config)[n]) }

----------------------------------------------------------------------------
(* SocwatchParser.can_parse, socwatch_parser.py:236-278, next to           *)
(* PCIeParser.can_parse                                                    *)

\* SocwatchParser.can_parse demanding the '_osSession.etl' file as well
socwatch_can_parse_os(file_path) ==
    LET filename == file_path.name
        found    == etl_loop(file_path.folder, 1,
                             [etl_files_found |-> {}, workload_prefix |-> NoPrefix,
                              has_os_session |-> FALSE])
    IN  IF ToLower(PathSuffix(filename)) # CsvSuffix THEN FALSE
        ELSE IF Contains(WakeupAnalysis, ToLower(filename)) THEN FALSE
        ELSE IF Cardinality(found.etl_files_found) < 3 \/ ~found.has_os_session THEN FALSE
        ELSE /\ found.workload_prefix # NoPrefix
             /\ Len(found.workload_prefix) > 0
             /\ StartsWith(filename, found.workload_prefix)
             /\ EndsWith(filename, CsvSuffix)

\* SocwatchParser.can_parse: the loop over the '.etl' entries is that of
\* PCIeParser.can_parse without the test for '_osSession.etl'
socwatch_can_parse(file_path) ==
    LET filename == file_path.name
        found    == etl_loop(file_path.folder, 1,
                             [etl_files_found |-> {}, workload_prefix |-> NoPrefix,
                              has_os_session |-> FALSE])
    IN  IF ToLower(PathSuffix(filename)) # CsvSuffix THEN FALSE
        ELSE IF Contains(WakeupAnalysis, ToLower(filename)) THEN FALSE
        ELSE IF Cardinality(found.etl_files_found) < 3 THEN FALSE
        ELSE /\ found.workload_prefix # NoPrefix
             /\ Len(found.workload_prefix) > 0
             /\ StartsWith(filename, found.workload_prefix)
             /\ EndsWith(filename, CsvSuffix)

\* the 'parsers' section of _load_defaults with 'pcie' ahead of 'socwatch'
PcieAhead ==
    << [k |-> "power",        v |-> ParserEntry(TRUE, TRUE)],
       [k |-> "pcie",         v |-> ParserEntry(TRUE, TRUE)],
       [k |-> "socwatch",     v |-> ParserEntry(TRUE, TRUE)] >>

\* a WorkloadParser after its construction and a file in a folder; no other
\* enabled parser of the package accepts a file name of CsvNames
InitDetect ==
    /\ InitNoSocwatch
    /\ InitNoTable
    /\ pc = "pcie"
    /\ registry = DefaultParsers
    /\ config \in { BasicDefaults, PcieAhead }
    /\ calls = <<>>
    /\ \E f \in Folders, n \in CsvNames :
          path = [name |-> n, exists |-> TRUE, is_file |-> TRUE, accepted_by |-> {},
                  fault |-> "none", folder |-> f, content |-> NoPcieData]

\* SocwatchParser.can_parse on the file
SocwatchCanParse ==
    /\ pc = "pcie"
    /\ Len(calls) = 1
    /\ calls' = Append(calls, Call("can_parse", "SocwatchParser", "SocwatchParser", FALSE, "",
                                   socwatch_can_parse(path)))
    /\ UNCHANGED <<catalog, file, pc, registry, config, path>>
    /\ UNCHANGED parseVars
    /\ UNCHANGED tableVars

\* ParserRegistry.find_compatible_parser on the file, each parser
\* answering by its can_parse
FindCompatibleParser ==
    /\ pc = "pcie"
    /\ Len(calls) = 2
    /\ LET accepting == { c \in {"SocwatchParser", "PCIeParser"} :
                             IF c = "PCIeParser" THEN can_parse(path)
                             ELSE socwatch_can_parse(path) }
           parser_name == find_compatible_parser(registry, config,
                                                 [path EXCEPT !.accepted_by = accepting])
       IN  calls' = Append(calls, Call("find_compatible_parser", parser_name, "None",
                                       FALSE, "", <<>>))
    /\ pc' = "found"
    /\ UNCHANGED <<catalog, file, registry, config, path>>
    /\ UNCHANGED parseVars
    /\ UNCHANGED tableVars

NextDetect == CanParse \/ SocwatchCanParse \/ FindCompatibleParser

SpecDetect == InitDetect /\ [][NextDetect]_vars

\* 'socwatch' and 'pcie' are enabled, 'socwatch' ahead of 'pcie'
SocwatchAhead ==
    \E a, b \in 1..Len(get_enabled_parsers(config)) :
        /\ a < b
        /\ get_enabled_parsers(config)[a] = "socwatch"
        /\ get_enabled_parsers(config)[b] = "pcie"

\* C30 - PCIe detection implies SocWatch detection: when PCIeParser.can_parse
\* accepts a file, SocwatchParser.can_parse accepts it too; so with both
\* parsers enabled and 'socwatch' ahead of 'pcie' in the enabled order,
\* find_compatible_parser never returns 'pcie'.
C30_PcieImpliesSocwatch ==
    /\ (Len(calls) >= 2 /\ calls[1].value = TRUE) => calls[2].value = TRUE
    /\ (Len(calls) >= 3 /\ SocwatchAhead) => calls[3].name # "pcie"

\* a file both parsers accept, in a folder without '_osSession.etl', for
\* which 'socwatch' is selected
C30_Witness ==
    /\ Len(calls) = 3
    /\ calls[1].cls = "PCIeParser" /\ calls[1].value = TRUE
    /\ calls[2].cls = "SocwatchParser" /\ calls[2].value = TRUE
    /\ calls[3].op = "find_compatible_parser" /\ calls[3].name = "socwatch"
    /\ SocwatchAhead
    /\ ~HasOsSession(path.folder)

====
